---- MODULE Spec2Model ----
(***************************************************************************)
(* A model of the ATS classification-and-verification subsystem of the     *)
(* job-search agent (src/fix_ats_config.py, src/investigate_unverified.py) *)
(* and of its heuristic crawler (src/generic_crawler.py).                  *)
(* Text is modelled as text: URLs, markup and slugs are strings, and the   *)
(* regular expressions of the pattern registry are matched by a small      *)
(* backtracking matcher, so that classification is computed as the code    *)
(* computes it.                                                            *)
(***************************************************************************)
EXTENDS Integers, Sequences, FiniteSets, TLC

VARIABLES
    name,         \* analyze_company: the company name
    career_url,   \* analyze_company: the career URL
    current_ats,  \* analyze_company: the backend type the caller declares
    pc,           \* position of the call (or of the pure-function harness)
    cand,         \* stage 2: the candidate classified from the markup
    order,        \* stage 3: slug_variations, in the order the list iterates
    gi,           \* stage 3: index of the backend being tried
    vi,           \* stage 3: index of the variant being tried
    log,          \* every network request made so far, with its outcome
    result,       \* the ATSInfo returned
    fn_in,        \* input of a pure function under check
    fn_out        \* its output

vars == <<name, career_url, current_ats, pc, cand, order, gi, vi, log, result, fn_in, fn_out>>

resolver_vars == <<name, career_url, current_ats, cand, order, gi, vi, log, result>>

\* ------------------------------------------------------------------ bounds

\* The largest number of postings a listing response carries.
MaxJobs == 2
\* The longest tenant slug of the URL round trip.
MaxSlugLen == 2

\* ------------------------------------------------------------------ text

Ch(s, i) == SubSeq(s, i, i)

\* Text is over the characters U+0001..U+00FF. The letters that have a lower
\* case, and their lower case, position by position.
UPPER == "ABCDEFGHIJKLMNOPQRSTUVWXYZÀÁÂÃÄÅÆÇÈÉÊËÌÍÎÏÐÑÒÓÔÕÖØÙÚÛÜÝÞ"
LOWER == "abcdefghijklmnopqrstuvwxyzàáâãäåæçèéêëìíîïðñòóôõöøùúûüýþ"
DIGITS == "0123456789"
ASCII_LETTERS == "ABCDEFGHIJKLMNOPQRSTUVWXYZabcdefghijklmnopqrstuvwxyz"
\* The characters str.isspace() holds for, which are also those of \s:
\* U+0009..U+000D, U+001C..U+0020, U+0085 and U+00A0.
WHITESPACE == "\t\n\f\r  "

CharsOf(s) == {Ch(s, i) : i \in 1..Len(s)}

UpperChars == CharsOf(UPPER)
DigitChars == CharsOf(DIGITS)
AsciiLetters == CharsOf(ASCII_LETTERS)
\* \w of a str pattern: the alphanumeric characters and "_".
WordChars == UpperChars \cup CharsOf(LOWER) \cup DigitChars \cup {"_"} \cup CharsOf("ª²³µ¹º¼½¾ßÿ")

LowerOf == [c \in UpperChars |-> Ch(LOWER, CHOOSE i \in 1..Len(UPPER) : Ch(UPPER, i) = c)]

LowerCh(c) == IF c \in UpperChars THEN LowerOf[c] ELSE c

\* str.lower()
RECURSIVE Lower(_)
Lower(s) ==
    IF Len(s) = 0 THEN "" ELSE LowerCh(Ch(s, 1)) \o Lower(SubSeq(s, 2, Len(s)))

\* str.replace(" ", by)
RECURSIVE ReplaceSpace(_, _)
ReplaceSpace(s, by) ==
    IF Len(s) = 0 THEN ""
    ELSE (IF Ch(s, 1) = " " THEN by ELSE Ch(s, 1)) \o ReplaceSpace(SubSeq(s, 2, Len(s)), by)

\* sub in s
Contains(s, sub) ==
    \E i \in 1..(Len(s) - Len(sub) + 1) : SubSeq(s, i, i + Len(sub) - 1) = sub

\* s.endswith(suffix)
EndsWith(s, suffix) ==
    /\ Len(suffix) <= Len(s)
    /\ SubSeq(s, Len(s) - Len(suffix) + 1, Len(s)) = suffix

IsSpace(c) == c \in CharsOf(WHITESPACE)

\* str.split()[0]: the first whitespace-separated word; "" stands for the
\* empty list, whose [0] raises IndexError.
FirstWord(s) ==
    LET starts == {i \in 1..Len(s) : ~IsSpace(Ch(s, i))} IN
    IF starts = {} THEN ""
    ELSE LET b == CHOOSE i \in starts : \A j \in starts : i <= j
             ends == {i \in b..Len(s) : i = Len(s) \/ IsSpace(Ch(s, i + 1))}
             e == CHOOSE i \in ends : \A j \in ends : i <= j
         IN SubSeq(s, b, e)

SetMax(S) == CHOOSE x \in S : \A y \in S : y <= x
SetMin(S) == CHOOSE x \in S : \A y \in S : x <= y

\* ------------------------------------------------------------------ regular expressions

\* The character classes the registry's patterns use.
InClass(cls, c) ==
    CASE cls = "w" -> c \in WordChars
      [] cls = "d" -> c \in DigitChars
      [] cls = "s" -> IsSpace(c)
      [] cls = "not_gt" -> c # ">"
      [] cls = "quote" -> c \in {"\"", "'"}
      [] cls = "not_quote" -> c \notin {"\"", "'"}
      [] cls = "any" -> c # "\n"
      [] OTHER -> FALSE

\* Pattern elements: a literal, an optional literal ("s?"), a character class
\* with a quantifier ("1", "+" or "*", greedy), and the two ends of the
\* capturing group. Lit is the literal of a pattern searched with
\* re.IGNORECASE, LitCased and OptCased those of one searched without flags.
Lit(s) == [k |-> "lit", c |-> s, q |-> "1", cased |-> FALSE]
LitCased(s) == [k |-> "lit", c |-> s, q |-> "1", cased |-> TRUE]
OptCased(s) == [k |-> "opt", c |-> s, q |-> "?", cased |-> TRUE]
Cls(c, q) == [k |-> "cls", c |-> c, q |-> q, cased |-> FALSE]
GOpen == [k |-> "(", c |-> "", q |-> "1", cased |-> FALSE]
GClose == [k |-> ")", c |-> "", q |-> "1", cased |-> FALSE]

\* The literal of element e is at position i of s.
LitAt(e, s, i) ==
    /\ i + Len(e.c) - 1 <= Len(s)
    /\ \A j \in 1..Len(e.c) :
         IF e.cased THEN Ch(s, i + j - 1) = Ch(e.c, j)
         ELSE LowerCh(Ch(s, i + j - 1)) = LowerCh(Ch(e.c, j))

NoMatch == [end |-> 0, gs |-> 0, ge |-> 0]

\* The number of consecutive characters of class cls from position i.
RunLen(cls, s, i) ==
    LET stops == {j \in i..Len(s) : ~InClass(cls, Ch(s, j))} IN
    IF stops = {} THEN Len(s) - i + 1 ELSE SetMin(stops) - i

\* re's backtracking match of pat[k..] at position i of s:
\* the position after the match and the group's bounds, or NoMatch.
RECURSIVE MatchAt(_, _, _, _)
MatchAt(pat, k, s, i) ==
    IF k > Len(pat) THEN [end |-> i, gs |-> 0, ge |-> 0]
    ELSE LET e == pat[k] IN
      CASE e.k = "lit" ->
             IF LitAt(e, s, i)
             THEN MatchAt(pat, k + 1, s, i + Len(e.c))
             ELSE NoMatch
        [] e.k = "(" ->
             LET r == MatchAt(pat, k + 1, s, i) IN
             IF r.end = 0 THEN NoMatch ELSE [r EXCEPT !.gs = i]
        [] e.k = ")" ->
             LET r == MatchAt(pat, k + 1, s, i) IN
             IF r.end = 0 THEN NoMatch ELSE [r EXCEPT !.ge = i]
        [] e.k = "opt" ->
             LET with == IF LitAt(e, s, i)
                         THEN MatchAt(pat, k + 1, s, i + Len(e.c))
                         ELSE NoMatch
             IN IF with.end # 0 THEN with ELSE MatchAt(pat, k + 1, s, i)
        [] e.k = "cls" /\ e.q = "1" ->
             IF i <= Len(s) /\ InClass(e.c, Ch(s, i))
             THEN MatchAt(pat, k + 1, s, i + 1)
             ELSE NoMatch
        [] OTHER ->
             LET m == RunLen(e.c, s, i)
                 lo == IF e.q = "+" THEN 1 ELSE 0
                 fits == {n \in lo..m : MatchAt(pat, k + 1, s, i + n).end # 0}
             IN IF fits = {} THEN NoMatch
                ELSE MatchAt(pat, k + 1, s, i + SetMax(fits))

HasGroup(pat) == \E k \in 1..Len(pat) : pat[k].k = "("

\* re.search(pat, s, flags) followed by
\* `match.group(1) if match.groups() else None`.
RECURSIVE SearchFrom(_, _, _)
SearchFrom(pat, s, i) ==
    IF i > Len(s) + 1 THEN [found |-> FALSE, some |-> FALSE, v |-> ""]
    ELSE LET r == MatchAt(pat, 1, s, i) IN
         IF r.end = 0 THEN SearchFrom(pat, s, i + 1)
         ELSE [found |-> TRUE,
               some |-> HasGroup(pat),
               v |-> IF HasGroup(pat) THEN SubSeq(s, r.gs, r.ge - 1) ELSE ""]

Search(pat, s) == SearchFrom(pat, s, 1)

\* ------------------------------------------------------------------ pattern registry

Word == <<GOpen, Cls("w", "+"), GClose>>

\* ATS_URL_PATTERNS, in the dictionary's insertion order.
ATS_URL_PATTERNS == <<
    [ats |-> "greenhouse", pat |-> <<Lit("boards.greenhouse.io/")>> \o Word],
    [ats |-> "greenhouse", pat |-> <<Lit("job-boards.greenhouse.io/")>> \o Word],
    [ats |-> "greenhouse", pat |-> <<Lit("api.greenhouse.io")>>],
    [ats |-> "lever", pat |-> <<Lit("jobs.lever.co/")>> \o Word],
    [ats |-> "ashby", pat |-> <<Lit("jobs.ashbyhq.com/")>> \o Word],
    [ats |-> "workday",
     pat |-> Word \o <<Lit(".wd"), Cls("d", "+"), Lit(".myworkdayjobs.com")>>],
    [ats |-> "workday", pat |-> Word \o <<Lit(".myworkdaysite.com")>>] >>

NoDetection == [found |-> FALSE, ats |-> "", some |-> FALSE, v |-> ""]

\* The first entry of a registry table that matches the text: the loop of
\* detect_from_url and detect_from_html.
RECURSIVE FirstMatchFrom(_, _, _)
FirstMatchFrom(table, text, k) ==
    IF k > Len(table) THEN NoDetection
    ELSE LET m == Search(table[k].pat, text) IN
         IF m.found
         THEN [found |-> TRUE, ats |-> table[k].ats, some |-> m.some, v |-> m.v]
         ELSE FirstMatchFrom(table, text, k + 1)

FirstMatch(table, text) == FirstMatchFrom(table, text, 1)

\* detect_from_url: (ats_type, slug), slug None when the pattern has no group
\* (some = FALSE), or None (found = FALSE).
detect_from_url(url) == FirstMatch(ATS_URL_PATTERNS, url)

\* build_direct_url: the canonical board URL, "" for a backend without one.
build_direct_url(ats_type, slug) ==
    CASE ats_type = "greenhouse" -> "https://boards.greenhouse.io/" \o slug
      [] ats_type = "lever" -> "https://jobs.lever.co/" \o slug
      [] ats_type = "ashby" -> "https://jobs.ashbyhq.com/" \o slug
      [] OTHER -> ""

Iframe(vendor) ==
    <<Lit("<iframe"), Cls("not_gt", "+"), Lit("src="), Cls("quote", "1"), GOpen,
      Cls("not_quote", "*"), Lit(vendor), Cls("not_quote", "*"), GClose, Cls("quote", "1")>>

ScriptSrc(vendor) ==
    <<Lit("<script"), Cls("not_gt", "+"), Lit("src="), Cls("quote", "1"), GOpen,
      Cls("not_quote", "*"), Lit(vendor), Cls("not_quote", "*"), GClose, Cls("quote", "1")>>

\* HTML_INDICATORS, in the dictionary's insertion order and each list's order.
HTML_INDICATORS == <<
    [ats |-> "greenhouse", kind |-> "iframe", pat |-> Iframe("greenhouse.io")],
    [ats |-> "greenhouse", kind |-> "script", pat |-> ScriptSrc("greenhouse.io")],
    [ats |-> "greenhouse", kind |-> "embed",
     pat |-> <<Lit("data-greenhouse-embed"), Cls("not_gt", "*"), Cls("quote", "1"), GOpen,
               Cls("not_quote", "+"), GClose, Cls("quote", "1")>>],
    [ats |-> "greenhouse", kind |-> "link", pat |-> <<Lit("boards.greenhouse.io/")>> \o Word],
    [ats |-> "greenhouse", kind |-> "link",
     pat |-> <<Lit("job-boards.greenhouse.io/")>> \o Word],
    [ats |-> "greenhouse", kind |-> "config",
     pat |-> <<Lit("\"greenhouse\":"), Cls("s", "*"), Lit("{"), Cls("s", "*"),
               Lit("\"board_token\":"), Cls("s", "*"), Lit("\"")>> \o Word \o <<Lit("\"")>>],
    [ats |-> "lever", kind |-> "iframe", pat |-> Iframe("lever.co")],
    [ats |-> "lever", kind |-> "link", pat |-> <<Lit("jobs.lever.co/")>> \o Word],
    [ats |-> "lever", kind |-> "api", pat |-> <<Lit("api.lever.co/v0/postings/")>> \o Word],
    [ats |-> "ashby", kind |-> "iframe", pat |-> Iframe("ashbyhq.com")],
    [ats |-> "ashby", kind |-> "link", pat |-> <<Lit("jobs.ashbyhq.com/")>> \o Word],
    [ats |-> "workday", kind |-> "iframe", pat |-> Iframe("workday")],
    [ats |-> "workday", kind |-> "link",
     pat |-> Word \o <<Lit(".wd"), Cls("d", "+"), Lit(".myworkdayjobs.com")>>] >>

\* detect_from_html: (ats_type, extracted) or None.
detect_from_html(html) == FirstMatch(HTML_INDICATORS, html)

\* The first position of s holding one of the characters, 0 when none does.
FindAny(s, chars) ==
    LET at == {i \in 1..Len(s) : Ch(s, i) \in chars} IN
    IF at = {} THEN 0 ELSE SetMin(at)

\* The text before the first of the characters.
Before(s, chars) ==
    LET at == FindAny(s, chars) IN IF at = 0 THEN s ELSE SubSeq(s, 1, at - 1)

\* The text after the first of the characters, "" when none is there.
After(s, chars) ==
    LET at == FindAny(s, chars) IN IF at = 0 THEN "" ELSE SubSeq(s, at + 1, Len(s))

StartsWith(s, prefix) == Len(prefix) <= Len(s) /\ SubSeq(s, 1, Len(prefix)) = prefix

\* str.split(c)
RECURSIVE SplitOn(_, _)
SplitOn(s, c) ==
    LET at == FindAny(s, {c}) IN
    IF at = 0 THEN <<s>>
    ELSE <<SubSeq(s, 1, at - 1)>> \o SplitOn(SubSeq(s, at + 1, Len(s)), c)

\* c.join(parts)
RECURSIVE JoinWith(_, _)
JoinWith(parts, c) ==
    IF Len(parts) = 0 THEN ""
    ELSE IF Len(parts) = 1 THEN parts[1]
    ELSE parts[1] \o c \o JoinWith(Tail(parts), c)

\* str.lstrip(chars)
LStrip(s, chars) ==
    LET keep == {i \in 1..Len(s) : Ch(s, i) \notin chars} IN
    IF keep = {} THEN "" ELSE SubSeq(s, SetMin(keep), Len(s))

\* The text without the characters.
RECURSIVE RemoveChars(_, _)
RemoveChars(s, chars) ==
    IF Len(s) = 0 THEN ""
    ELSE (IF Ch(s, 1) \in chars THEN "" ELSE Ch(s, 1))
         \o RemoveChars(SubSeq(s, 2, Len(s)), chars)

\* urllib.parse: the characters urlsplit strips from the left of a URL
\* (U+0001..U+0020), those it removes, the characters of a scheme, and the
\* scheme tables.
C0_CONTROL_OR_SPACE == "\t\n\f\r "
UNSAFE_URL_BYTES_TO_REMOVE == {"\t", "\r", "\n"}
SchemeChars == AsciiLetters \cup DigitChars \cup {"+", "-", "."}
USES_PARAMS ==
    {"", "ftp", "hdl", "prospero", "http", "imap", "https", "shttp", "rtsp", "rtsps",
     "rtspu", "sip", "sips", "mms", "sftp", "tel"}
USES_RELATIVE ==
    {"", "ftp", "http", "gopher", "nntp", "imap", "wais", "file", "https", "shttp", "mms",
     "prospero", "rtsp", "rtsps", "rtspu", "sftp", "svn", "svn+ssh", "ws", "wss"}
USES_NETLOC ==
    {"", "ftp", "http", "gopher", "nntp", "telnet", "imap", "wais", "file", "mms", "https",
     "shttp", "snews", "prospero", "rtsp", "rtsps", "rtspu", "rsync", "svn", "svn+ssh",
     "sftp", "nfs", "git", "git+ssh", "ws", "wss"}

HexChars == CharsOf("0123456789abcdefABCDEF")

\* int(s, 10) of a text of decimal digits.
RECURSIVE DecValue(_)
DecValue(s) ==
    IF Len(s) = 0 THEN 0
    ELSE 10 * DecValue(SubSeq(s, 1, Len(s) - 1))
         + (CHOOSE d \in 0..9 : Ch(DIGITS, d + 1) = Ch(s, Len(s)))

\* ipaddress: an octet of an IPv4 address, an IPv4 address, a hextet.
IsOctet(o) ==
    /\ Len(o) \in 1..3
    /\ \A i \in 1..Len(o) : Ch(o, i) \in DigitChars
    /\ o = "0" \/ Ch(o, 1) # "0"
    /\ DecValue(o) <= 255

IsIPv4(s) ==
    LET octets == SplitOn(s, ".") IN
    Len(octets) = 4 /\ \A i \in 1..4 : IsOctet(octets[i])

IsHextet(h) == Len(h) \in 1..4 /\ \A i \in 1..Len(h) : Ch(h, i) \in HexChars

\* _ip_int_from_string around the "::" at position skip of the n groups: hi
\* groups before it and lo after it, all of them hextets.
IPv6Sides(parts, n, hi, lo) ==
    /\ parts[1] = "" => hi = 0
    /\ parts[n] = "" => lo = 0
    /\ 8 - (hi + lo) >= 1
    /\ \A i \in 1..hi : IsHextet(parts[i])
    /\ \A i \in (n - lo + 1)..n : IsHextet(parts[i])

IPv6AroundSkip(parts, n, skip) ==
    IPv6Sides(parts, n,
              IF parts[1] = "" THEN skip - 2 ELSE skip - 1,
              IF parts[n] = "" THEN n - skip - 1 ELSE n - skip)

\* skips: the positions of the empty groups that stand for "::".
IPv6Skips(parts, skips) ==
    /\ Cardinality(skips) <= 1
    /\ IF skips = {}
       THEN Len(parts) = 8 /\ \A i \in 1..Len(parts) : IsHextet(parts[i])
       ELSE IPv6AroundSkip(parts, Len(parts), CHOOSE i \in skips : TRUE)

IPv6Hextets(parts) ==
    /\ Len(parts) <= 9
    /\ IPv6Skips(parts, {i \in 2..(Len(parts) - 1) : parts[i] = ""})

\* raw: the address split at ":"; a last group that holds a "." is an IPv4
\* address and counts for two hextets.
IPv6Groups(raw) ==
    /\ Len(raw) >= 3
    /\ IF Contains(raw[Len(raw)], ".")
       THEN /\ IsIPv4(raw[Len(raw)])
            /\ IPv6Hextets(SubSeq(raw, 1, Len(raw) - 1) \o <<"0", "0">>)
       ELSE IPv6Hextets(raw)

\* ipaddress.IPv6Address accepts the text: _split_scope_id and
\* _ip_int_from_string.
IsIPv6(s) ==
    /\ FindAny(s, {"%"}) # 0 => (After(s, {"%"}) # "" /\ ~Contains(After(s, {"%"}), "%"))
    /\ Before(s, {"%"}) # ""
    /\ IPv6Groups(SplitOn(Before(s, {"%"}), ":"))

\* The IPvFuture literal v[a-fA-F0-9]+\..+ with its "." at position dot.
IPvFutureAt(h, dot) ==
    /\ dot > 2
    /\ Ch(h, dot) = "."
    /\ dot < Len(h)
    /\ \A i \in (dot + 1)..Len(h) : Ch(h, i) # "\n"

\* _check_bracketed_host does not raise: an IPvFuture literal or an IPv6
\* address.
ValidBracketedHost(h) ==
    IF StartsWith(h, "v")
    THEN /\ \E i \in 2..Len(h) : Ch(h, i) \notin HexChars
         /\ IPvFutureAt(h, SetMin({i \in 2..Len(h) : Ch(h, i) \notin HexChars}))
    ELSE IsIPv6(h)

UrlRaises ==
    [raised |-> TRUE, scheme |-> "", netloc |-> "", path |-> "", params |-> "",
     query |-> "", fragment |-> ""]

\* urlsplit, last step: the fragment, then the query, are split off the path.
SplitPath(scheme, netloc, after) ==
    [raised |-> FALSE,
     scheme |-> scheme,
     netloc |-> netloc,
     path |-> Before(Before(after, {"#"}), {"?"}),
     params |-> "",
     query |-> After(Before(after, {"#"}), {"?"}),
     fragment |-> After(after, {"#"})]

\* urlsplit: the checks of the brackets of the netloc; ValueError when they do
\* not pair or do not hold an IPv6 or IPvFuture address.
CheckNetloc(scheme, netloc, after) ==
    IF Contains(netloc, "[") # Contains(netloc, "]") THEN UrlRaises
    ELSE IF /\ Contains(netloc, "[")
            /\ ~ValidBracketedHost(Before(After(netloc, {"["}), {"]"}))
    THEN UrlRaises
    ELSE SplitPath(scheme, netloc, after)

\* _splitnetloc: the netloc ends before the first of "/", "?" and "#".
SplitNetlocAt(scheme, tail, stop) ==
    IF stop = 0 THEN CheckNetloc(scheme, tail, "")
    ELSE CheckNetloc(scheme, SubSeq(tail, 1, stop - 1), SubSeq(tail, stop, Len(tail)))

\* urlsplit after the scheme: a netloc follows "//".
SplitRest(scheme, rest) ==
    IF StartsWith(rest, "//")
    THEN SplitNetlocAt(scheme, SubSeq(rest, 3, Len(rest)),
                       FindAny(SubSeq(rest, 3, Len(rest)), {"/", "?", "#"}))
    ELSE SplitPath(scheme, "", rest)

\* The position of the ":" that ends the scheme of the URL, 0 when it has no
\* scheme.
SchemeEnd(clean, colon) ==
    IF /\ colon > 1
       /\ Ch(clean, 1) \in AsciiLetters
       /\ \A j \in 1..(colon - 1) : Ch(clean, j) \in SchemeChars
    THEN colon
    ELSE 0

SplitScheme(clean, scheme, colon) ==
    SplitRest(IF colon # 0 THEN Lower(SubSeq(clean, 1, colon - 1)) ELSE scheme,
              SubSeq(clean, colon + 1, Len(clean)))

SplitClean(clean, scheme) ==
    SplitScheme(clean, scheme, SchemeEnd(clean, FindAny(clean, {":"})))

\* urlsplit(url, scheme): raised stands for ValueError.
urlsplit(url, scheme) ==
    SplitClean(RemoveChars(LStrip(url, CharsOf(C0_CONTROL_OR_SPACE)),
                           UNSAFE_URL_BYTES_TO_REMOVE),
               scheme)

\* _splitparams: the position of the ";" that starts the parameters of the
\* last segment, 0 when it has none.
ParamsAt(path) ==
    LET slashes == {i \in 1..Len(path) : Ch(path, i) = "/"}
        at == {i \in (IF slashes = {} THEN 1 ELSE SetMax(slashes))..Len(path) :
                 Ch(path, i) = ";"}
    IN IF at = {} THEN 0 ELSE SetMin(at)

SplitParamsAt(parts, at) ==
    IF at = 0 THEN parts
    ELSE [parts EXCEPT !.path = SubSeq(parts.path, 1, at - 1),
                       !.params = SubSeq(parts.path, at + 1, Len(parts.path))]

SplitParams(parts) ==
    IF ~parts.raised /\ parts.scheme \in USES_PARAMS
    THEN SplitParamsAt(parts, ParamsAt(parts.path))
    ELSE parts

\* urlparse(url, scheme)
urlparse(url, scheme) == SplitParams(urlsplit(url, scheme))

\* urlunsplit((scheme, netloc, url, query, fragment))
urlunsplit(scheme, netloc, url, query, fragment) ==
    (IF scheme # "" THEN scheme \o ":" ELSE "")
    \o (IF netloc # "" \/ (scheme # "" /\ scheme \in USES_NETLOC /\ ~StartsWith(url, "//"))
        THEN "//" \o netloc \o (IF url # "" /\ ~StartsWith(url, "/") THEN "/" ELSE "") \o url
        ELSE url)
    \o (IF query # "" THEN "?" \o query ELSE "")
    \o (IF fragment # "" THEN "#" \o fragment ELSE "")

\* urlunparse((scheme, netloc, path, params, query, fragment))
urlunparse(scheme, netloc, path, params, query, fragment) ==
    urlunsplit(scheme, netloc, IF params # "" THEN path \o ";" \o params ELSE path,
               query, fragment)

\* str.strip("/")
StripSlashes(path) ==
    LET inner == {i \in 1..Len(path) : Ch(path, i) # "/"} IN
    IF inner = {} THEN "" ELSE SubSeq(path, SetMin(inner), SetMax(inner))

\* path_parts[0] of parsed.path.strip("/").split("/"), None (some = FALSE) when
\* it is empty.
FirstSegment(first) == [raised |-> FALSE, some |-> first # "", v |-> first]

SlugOfParsed(parsed) ==
    IF parsed.raised THEN [raised |-> TRUE, some |-> FALSE, v |-> ""]
    ELSE FirstSegment(Before(StripSlashes(parsed.path), {"/"}))

\* extract_slug_from_url: the first segment of the path, None when it is
\* empty; raised when urlparse raises ValueError.
extract_slug_from_url(url) == SlugOfParsed(urlparse(url, ""))

SUFFIXES == <<" ai", " inc", " labs", " technologies">>

\* _generate_slug_variations: the set the list is built from; raised when
\* name.split()[0] raises IndexError (a name holding a space and no word).
slug_variations(company_name) ==
    LET lname == Lower(company_name)
        has_space == Contains(lname, " ")
        first == IF has_space THEN FirstWord(lname) ELSE lname
        base(k) == SubSeq(lname, 1, Len(lname) - Len(SUFFIXES[k]))
        stripped == UNION {{ReplaceSpace(base(k), ""), ReplaceSpace(base(k), "-")} :
                           k \in {j \in 1..Len(SUFFIXES) : EndsWith(lname, SUFFIXES[j])}}
    IN [raised |-> has_space /\ FirstWord(lname) = "",
        vars |-> {ReplaceSpace(lname, ""), ReplaceSpace(lname, "-"),
                  ReplaceSpace(lname, "_"), first} \cup stripped]

\* list(set(variations)): a set of strings iterates in an order that depends
\* on the process's hash seed, so every order is possible.
Orders(S) ==
    {p \in [1..Cardinality(S) -> S] : \A i, j \in 1..Cardinality(S) : p[i] = p[j] => i = j}

\* ------------------------------------------------------------------ responses

\* A decoded JSON value: its type, its length (list, string) or value (number),
\* and, for an object, its members as <<key, value>> pairs.
JNull == [t |-> "null", n |-> 0, kv |-> <<>>]
JNum(v) == [t |-> "num", n |-> v, kv |-> <<>>]
JStr(len) == [t |-> "str", n |-> len, kv |-> <<>>]
JList(len) == [t |-> "list", n |-> len, kv |-> <<>>]
JObj(members) == [t |-> "obj", n |-> 0, kv |-> members]
\* A body response.json() cannot decode.
NotJson == [t |-> "invalid", n |-> 0, kv |-> <<>>]

\* dict.get(key, default)
DictGet(obj, key, default) ==
    LET at == {i \in 1..Len(obj.kv) : obj.kv[i][1] = key} IN
    IF at = {} THEN default ELSE obj.kv[SetMax(at)][2]

\* Whether len() accepts the value, and what it returns.
HasLen(j) == j.t \in {"list", "str", "obj"}
PyLen(j) == IF j.t = "obj" THEN Len(j.kv) ELSE j.n

\* bool(value)
Truthy(j) ==
    CASE j.t = "null" -> FALSE
      [] j.t = "obj" -> Len(j.kv) > 0
      [] OTHER -> j.n # 0

\* What the network answers to one request: an exception of the client
\* (timeout, connection error), or a status with a body.
ExcResponse == [exc |-> TRUE, status |-> 0, body |-> NotJson, text |-> ""]
Http(status, body, text) == [exc |-> FALSE, status |-> status, body |-> body, text |-> text]

\* The outcome of a try body: it raised, it returned (ok, count), or it fell
\* through to the statement after the try.
Raised == [raised |-> TRUE, ret |-> FALSE, ok |-> FALSE, count |-> 0]
FellThrough == [raised |-> FALSE, ret |-> FALSE, ok |-> FALSE, count |-> 0]
Returned(ok, count) == [raised |-> FALSE, ret |-> TRUE, ok |-> ok, count |-> count]

\* ------------------------------------------------------------------ endpoint verifier

\* `except Exception: pass`, then `return (False, 0)`.
ExceptException(r, resp) ==
    IF r.ret THEN [raised |-> FALSE, ok |-> r.ok, count |-> r.count]
    ELSE [raised |-> FALSE, ok |-> FALSE, count |-> 0]

\* The mutant: the postings are looked up under another key.
GreenhouseJobsWrongKey(data) ==
    DictGet(data, "results", JList(0))

\* data.get("jobs", [])
GreenhouseJobs(data) ==
    DictGet(data, "jobs", JList(0))

TryGreenhouse(resp) ==
    IF resp.exc THEN Raised
    ELSE IF resp.status # 200 THEN FellThrough
    ELSE IF resp.body.t = "invalid" THEN Raised
    ELSE IF resp.body.t # "obj" THEN Raised
    ELSE LET jobs == GreenhouseJobs(resp.body) IN
         IF HasLen(jobs) THEN Returned(TRUE, PyLen(jobs)) ELSE Raised

verify_greenhouse(slug, resp) == ExceptException(TryGreenhouse(resp), resp)

TryLever(resp) ==
    IF resp.exc THEN Raised
    ELSE IF resp.status # 200 THEN FellThrough
    ELSE IF resp.body.t = "invalid" THEN Raised
    ELSE IF resp.body.t = "list" THEN Returned(TRUE, resp.body.n)
    ELSE FellThrough

verify_lever(slug, resp) == ExceptException(TryLever(resp), resp)

TryAshby(resp) ==
    IF resp.exc THEN Raised
    ELSE IF resp.status # 200 THEN FellThrough
    ELSE IF resp.body.t = "invalid" THEN Raised
    ELSE IF resp.body.t # "obj" THEN Raised
    ELSE LET data == DictGet(resp.body, "data", JObj(<<>>)) IN
         IF data.t # "obj" THEN Raised
         ELSE LET job_board == DictGet(data, "jobBoard", JObj(<<>>)) IN
              IF ~Truthy(job_board) THEN FellThrough
              ELSE IF job_board.t # "obj" THEN Raised
              ELSE LET job_postings == DictGet(job_board, "jobPostings", JList(0)) IN
                   IF HasLen(job_postings) THEN Returned(TRUE, PyLen(job_postings))
                   ELSE Raised

verify_ashby(slug, resp) == ExceptException(TryAshby(resp), resp)

\* verify_ats: the dispatch; a backend without a verifier is (False, 0) and
\* no request is made.
verify_ats(ats_type, slug, resp) ==
    CASE ats_type = "greenhouse" -> verify_greenhouse(slug, resp)
      [] ats_type = "lever" -> verify_lever(slug, resp)
      [] ats_type = "ashby" -> verify_ashby(slug, resp)
      [] OTHER -> [raised |-> FALSE, ok |-> FALSE, count |-> 0]

\* The marker test of check_workday on one page.
WorkdayPageFound(resp) ==
    ~resp.exc /\ resp.status = 200 /\ Contains(Lower(resp.text), "workday")

WorkdayUrls(company_name) ==
    LET n == ReplaceSpace(Lower(company_name), "") IN
    <<"https://" \o n \o ".wd5.myworkdayjobs.com/" \o n,
      "https://" \o n \o ".wd1.myworkdayjobs.com/" \o n,
      "https://" \o n \o ".wd3.myworkdayjobs.com/" \o n>>

\* check_workday: resps[k] is the answer to the k-th candidate page; the
\* first page found is returned with the count -1, None (some = FALSE) when
\* no page is.
check_workday(company_name, resps) ==
    LET urls == WorkdayUrls(company_name)
        hits == {k \in 1..Len(urls) : WorkdayPageFound(resps[k])}
    IN IF hits = {} THEN [some |-> FALSE, url |-> "", count |-> 0]
       ELSE [some |-> TRUE, url |-> urls[SetMin(hits)], count |-> -1]

\* ------------------------------------------------------------------ the network

STATUSES == {200, 404, 500}

Postings == {JList(n) : n \in 0..MaxJobs}

\* The bodies a listing endpoint answers with: each backend's own shape with
\* 0..MaxJobs postings, and the malformed ones.
Bodies ==
    {NotJson, JNull, JNum(1), JStr(2), JObj(<<>>)}
    \cup Postings
    \cup {JObj(<<<<"jobs", j>>>>) : j \in Postings \cup {JNull, JNum(1), JStr(2)}}
    \cup {JObj(<<<<"error", JStr(2)>>>>)}
    \cup {JObj(<<<<"data", JObj(<<<<"jobBoard", JObj(<<<<"jobPostings", j>>>>)>>>>)>>>>) :
            j \in Postings \cup {JNull}}
    \cup {JObj(<<<<"data", d>>>>) :
            d \in {JNull, JObj(<<>>), JList(1),
                   JObj(<<<<"jobBoard", JNull>>>>),
                   JObj(<<<<"jobBoard", JObj(<<>>)>>>>),
                   JObj(<<<<"jobBoard", JList(1)>>>>),
                   JObj(<<<<"jobBoard", JObj(<<<<"teams", JList(1)>>>>)>>>>)}}

ApiResponses ==
    {ExcResponse} \cup {Http(st, body, "") : st \in STATUSES, body \in Bodies}

\* The answers the resolver's verifications draw from: every body with
\* status 200, and the error statuses with an error body.
ResolverResponses ==
    {ExcResponse}
    \cup {Http(200, body, "") : body \in Bodies}
    \cup {Http(st, body, "") : st \in STATUSES \ {200}, body \in {NotJson, JObj(<<<<"error", JStr(2)>>>>)}}

\* Career pages: markup with each kind of indicator, with none, and with an
\* indicator whose URL urlparse raises ValueError for.
HtmlPages == {
    "<iframe src='//[boards.greenhouse.io/acme'></iframe>",
    "<html><a href='/jobs'>Jobs</a></html>",
    "<iframe id='b' src='https://boards.greenhouse.io/embed/job_board?for=acme'></iframe>",
    "<a href='https://jobs.lever.co/acme'>Open roles</a>",
    "<iframe src='https://jobs.ashbyhq.com'></iframe>",
    "<iframe src='https://acme.wd5.myworkdayjobs.com/ext'></iframe>",
    "<div data-greenhouse-embed='acme'></div>" }

PageResponses ==
    {ExcResponse}
    \cup {Http(st, NotJson, "<html>Not found</html>") : st \in STATUSES \ {200}}
    \cup {Http(200, NotJson, html) : html \in HtmlPages}

\* Workday candidate pages: with and without the marker.
WorkdayResponses ==
    {ExcResponse}
    \cup {Http(st, NotJson, text) :
            st \in {200, 404}, text \in {"<html>Workday careers</html>", "<html>Careers</html>"}}

\* ------------------------------------------------------------------ ATS resolver

\* The company entries the fixer is run on: (name, career_url, ats_type).
\* "Scale " has three slug variations: scale, scale- and scale_.
Companies == {
    <<"acme", "https://boards.greenhouse.io/acme", "greenhouse">>,
    <<"acme", "https://jobs.ashbyhq.com/acme", "lever">>,
    <<"Acme", "https://www.acme.com/careers", "custom">>,
    <<"Scale ", "https://scale.com/careers", "greenhouse">>,
    <<"Scale", "https://jobs.lever.co/scale-ai", "lever">>,
    <<"Acme", "https://acme.wd5.myworkdayjobs.com/acme", "workday">>,
    <<"", "https://boards-api.greenhouse.io/v1/boards", "greenhouse">>,
    <<" ", "https://www.acme.com/careers", "greenhouse">> }

GUESS_BACKENDS == <<"greenhouse", "lever", "ashby">>

NoResult == [ats_type |-> "", direct_url |-> "", job_count |-> 0, verified |-> FALSE]

ATSInfo(ats_type, direct_url, job_count, verified) ==
    [ats_type |-> ats_type, direct_url |-> direct_url,
     job_count |-> job_count, verified |-> verified]

\* One entry of the request log.
VerifyEntry(stage, ats_type, slug, v) ==
    [op |-> "verify", stage |-> stage, ats |-> ats_type, arg |-> slug,
     ok |-> v.ok, count |-> v.count]

FetchEntry(url, resp) ==
    [op |-> "fetch", stage |-> 2, ats |-> "", arg |-> url,
     ok |-> ~resp.exc /\ resp.status = 200, count |-> 0]

InitResolver ==
    /\ \E c \in Companies : name = c[1] /\ career_url = c[2] /\ current_ats = c[3]
    /\ pc = "stage1"
    /\ cand = NoDetection
    /\ order = <<>>
    /\ gi = 1
    /\ vi = 1
    /\ log = <<>>
    /\ result = NoResult
    /\ fn_in = <<>>
    /\ fn_out = <<>>

\* The mutant: a verified stage-1 candidate is recorded and the later stages run.
DirectUrlNoShortCircuit ==
    /\ pc = "stage1"
    /\ LET d == detect_from_url(career_url) IN
       IF d.found /\ d.some /\ d.v # ""
       THEN \E resp \in ResolverResponses :
            LET v == verify_ats(d.ats, d.v, resp) IN
            /\ log' = Append(log, VerifyEntry(1, d.ats, d.v, v))
            /\ result' = IF v.ok
                         THEN ATSInfo(d.ats, build_direct_url(d.ats, d.v), v.count, TRUE)
                         ELSE result
            /\ pc' = "stage2"
       ELSE /\ pc' = "stage2"
            /\ UNCHANGED <<log, result>>
    /\ UNCHANGED <<name, career_url, current_ats, cand, order, gi, vi, fn_in, fn_out>>

\* The mutant: a URL that matches a pattern is trusted whatever the check says.
DirectUrlTrustsPattern ==
    /\ pc = "stage1"
    /\ LET d == detect_from_url(career_url) IN
       IF d.found /\ d.some /\ d.v # ""
       THEN \E resp \in ResolverResponses :
            LET v == verify_ats(d.ats, d.v, resp) IN
            /\ log' = Append(log, VerifyEntry(1, d.ats, d.v, v))
            /\ result' = ATSInfo(d.ats, build_direct_url(d.ats, d.v), v.count, TRUE)
            /\ pc' = "returned"
       ELSE /\ pc' = "stage2"
            /\ UNCHANGED <<log, result>>
    /\ UNCHANGED <<name, career_url, current_ats, cand, order, gi, vi, fn_in, fn_out>>

\* The mutant: a candidate of the career URL is verified whatever its slug.
DirectUrlVerifiesAnySlug ==
    /\ pc = "stage1"
    /\ LET d == detect_from_url(career_url) IN
       IF d.found
       THEN \E resp \in ResolverResponses :
            LET v == verify_ats(d.ats, d.v, resp)
                direct_url == build_direct_url(d.ats, d.v)
            IN /\ log' = Append(log, VerifyEntry(1, d.ats, d.v, v))
               /\ IF v.raised
                  THEN pc' = "raised" /\ UNCHANGED result
                  ELSE IF v.ok
                  THEN /\ result' = ATSInfo(d.ats,
                                            IF direct_url # "" THEN direct_url ELSE career_url,
                                            v.count, TRUE)
                       /\ pc' = "returned"
                  ELSE pc' = "stage2" /\ UNCHANGED result
       ELSE /\ pc' = "stage2"
            /\ UNCHANGED <<log, result>>
    /\ UNCHANGED <<name, career_url, current_ats, cand, order, gi, vi, fn_in, fn_out>>

\* Step 1: the career URL is itself a direct ATS URL.
DirectUrlStage ==
    /\ pc = "stage1"
    /\ LET d == detect_from_url(career_url) IN
       IF d.found /\ d.some /\ d.v # ""
       THEN \E resp \in ResolverResponses :
            LET v == verify_ats(d.ats, d.v, resp)
                direct_url == build_direct_url(d.ats, d.v)
            IN /\ log' = Append(log, VerifyEntry(1, d.ats, d.v, v))
               /\ IF v.raised
                  THEN pc' = "raised" /\ UNCHANGED result
                  ELSE IF v.ok
                  THEN /\ result' = ATSInfo(d.ats,
                                            IF direct_url # "" THEN direct_url ELSE career_url,
                                            v.count, TRUE)
                       /\ pc' = "returned"
                  ELSE pc' = "stage2" /\ UNCHANGED result
       ELSE /\ pc' = "stage2"
            /\ UNCHANGED <<log, result>>
    /\ UNCHANGED <<name, career_url, current_ats, cand, order, gi, vi, fn_in, fn_out>>

\* The slug of a markup detection: taken from the URL's path when the
\* extracted value holds a ".", the extracted value itself otherwise; raised
\* when urlparse raises, which the handler of step 2 catches.
MarkupSlug(h) ==
    IF h.some /\ h.v # "" /\ Contains(h.v, ".")
    THEN extract_slug_from_url(h.v)
    ELSE [raised |-> FALSE, some |-> h.some, v |-> h.v]

\* The mutant: the fetch of the career page outside the handler of step 2.
FetchMarkupUnguarded ==
    /\ pc = "stage2"
    /\ \E page \in PageResponses :
       /\ log' = Append(log, FetchEntry(career_url, page))
       /\ IF page.exc
          THEN pc' = "raised" /\ UNCHANGED cand
          ELSE IF page.status # 200
          THEN pc' = "stage3" /\ UNCHANGED cand
          ELSE LET h == detect_from_html(page.text)
                   slug == MarkupSlug(h)
               IN IF h.found /\ ~slug.raised /\ slug.some /\ slug.v # ""
                  THEN /\ cand' = [found |-> TRUE, ats |-> h.ats, some |-> TRUE, v |-> slug.v]
                       /\ pc' = "stage2verify"
                  ELSE pc' = "stage3" /\ UNCHANGED cand
    /\ UNCHANGED <<name, career_url, current_ats, order, gi, vi, result, fn_in, fn_out>>

\* Step 2, first half: fetch the career page and classify its markup.
FetchMarkup ==
    /\ pc = "stage2"
    /\ \E page \in PageResponses :
       /\ log' = Append(log, FetchEntry(career_url, page))
       /\ IF page.exc \/ page.status # 200
          THEN pc' = "stage3" /\ UNCHANGED cand
          ELSE LET h == detect_from_html(page.text)
                   slug == MarkupSlug(h)
               IN IF h.found /\ ~slug.raised /\ slug.some /\ slug.v # ""
                  THEN /\ cand' = [found |-> TRUE, ats |-> h.ats, some |-> TRUE, v |-> slug.v]
                       /\ pc' = "stage2verify"
                  ELSE pc' = "stage3" /\ UNCHANGED cand
    /\ UNCHANGED <<name, career_url, current_ats, order, gi, vi, result, fn_in, fn_out>>

\* Step 2, second half: verify the candidate found in the markup.
VerifyMarkupCandidate ==
    /\ pc = "stage2verify"
    /\ \E resp \in ResolverResponses :
       LET v == verify_ats(cand.ats, cand.v, resp) IN
       /\ log' = Append(log, VerifyEntry(2, cand.ats, cand.v, v))
       /\ IF ~v.raised /\ v.ok
          THEN /\ result' = ATSInfo(cand.ats, build_direct_url(cand.ats, cand.v), v.count, TRUE)
               /\ pc' = "returned"
          ELSE pc' = "stage3" /\ UNCHANGED result
    /\ UNCHANGED <<name, career_url, current_ats, cand, order, gi, vi, fn_in, fn_out>>

\* Step 3, entry: the slug variations of the company name.
GenerateVariations ==
    /\ pc = "stage3"
    /\ LET g == slug_variations(name) IN
       IF g.raised
       THEN pc' = "raised" /\ UNCHANGED order
       ELSE pc' = "guess" /\ order' \in Orders(g.vars)
    /\ UNCHANGED <<name, career_url, current_ats, cand, gi, vi, log, result, fn_in, fn_out>>

\* The mutant: any guess that resolves is accepted.
GuessAcceptsAnyOk(v) == v.ok

\* `if verified and job_count > 0`
GuessAccepts(v) == v.ok /\ v.count > 0

\* The mutant: the loops nested the other way round, every backend for one
\* variant before the next variant.
GuessVerifyVariantMajor ==
    /\ pc = "guess"
    /\ \E resp \in ResolverResponses :
       LET ats_type == GUESS_BACKENDS[gi]
           slug == order[vi]
           v == verify_ats(ats_type, slug, resp)
       IN /\ log' = Append(log, VerifyEntry(3, ats_type, slug, v))
          /\ IF v.raised
             THEN pc' = "raised" /\ UNCHANGED <<result, gi, vi>>
             ELSE IF GuessAccepts(v)
             THEN /\ result' = ATSInfo(ats_type, build_direct_url(ats_type, slug),
                                       v.count, TRUE)
                  /\ pc' = "returned"
                  /\ UNCHANGED <<gi, vi>>
             ELSE /\ UNCHANGED result
                  /\ IF gi < Len(GUESS_BACKENDS)
                     THEN pc' = "guess" /\ gi' = gi + 1 /\ vi' = vi
                     ELSE IF vi < Len(order)
                     THEN pc' = "guess" /\ gi' = 1 /\ vi' = vi + 1
                     ELSE pc' = "exhausted" /\ UNCHANGED <<gi, vi>>
    /\ UNCHANGED <<name, career_url, current_ats, cand, order, fn_in, fn_out>>

\* Step 3: verify the next (backend, variant) pair.
GuessVerify ==
    /\ pc = "guess"
    /\ \E resp \in ResolverResponses :
       LET ats_type == GUESS_BACKENDS[gi]
           slug == order[vi]
           v == verify_ats(ats_type, slug, resp)
       IN /\ log' = Append(log, VerifyEntry(3, ats_type, slug, v))
          /\ IF v.raised
             THEN pc' = "raised" /\ UNCHANGED <<result, gi, vi>>
             ELSE IF GuessAccepts(v)
             THEN /\ result' = ATSInfo(ats_type, build_direct_url(ats_type, slug),
                                       v.count, TRUE)
                  /\ pc' = "returned"
                  /\ UNCHANGED <<gi, vi>>
             ELSE /\ UNCHANGED result
                  /\ IF vi < Len(order)
                     THEN pc' = "guess" /\ vi' = vi + 1 /\ gi' = gi
                     ELSE IF gi < Len(GUESS_BACKENDS)
                     THEN pc' = "guess" /\ vi' = 1 /\ gi' = gi + 1
                     ELSE pc' = "exhausted" /\ UNCHANGED <<gi, vi>>
    /\ UNCHANGED <<name, career_url, current_ats, cand, order, fn_in, fn_out>>

\* The mutant: the failure endpoint carries no backend type.
UnverifiedInfoBlank ==
    ATSInfo("", career_url, 0, FALSE)

\* "Could not detect/verify ATS": the endpoint of the failure return.
UnverifiedInfo ==
    ATSInfo(current_ats, career_url, 0, FALSE)

ReturnUnverified ==
    /\ pc = "exhausted"
    /\ result' = UnverifiedInfo
    /\ pc' = "returned"
    /\ UNCHANGED <<name, career_url, current_ats, cand, order, gi, vi, log, fn_in, fn_out>>

Next ==
    \/ DirectUrlStage
    \/ FetchMarkup
    \/ VerifyMarkupCandidate
    \/ GenerateVariations
    \/ GuessVerify
    \/ ReturnUnverified

\* One call of analyze_company on one company entry, against any network.
Spec == InitResolver /\ [][Next]_vars

\* ------------------------------------------------------------------ properties of the resolver

Last(l) == l[Len(l)]

\* An entry of the log that its stage accepts: stages 1 and 2 accept any
\* verification that is ok, stage 3 asks for postings as well.
Accepted(e) ==
    e.op = "verify" /\ e.ok /\ (e.stage = 3 => e.count > 0)

NoStageVerified == \A i \in 1..Len(log) : ~Accepted(log[i])

\* C1: when the career URL itself matches a direct pattern with a non-empty
\* slug and that candidate verifies, the call returns that backend and slug
\* at once: the stage-1 verification is the only request of the call (no
\* markup fetch, no guess).
C1_DirectUrlShortCircuits ==
    (Len(log) >= 1 /\ log[1].stage = 1 /\ log[1].ok) =>
        LET d == detect_from_url(career_url) IN
        /\ pc = "returned"
        /\ Len(log) = 1
        /\ d.found /\ d.some /\ d.v # ""
        /\ result.verified
        /\ result.ats_type = d.ats
        /\ result.direct_url = build_direct_url(d.ats, d.v)
        /\ result.job_count = log[1].count

\* C1's case: a URL of one backend, declared as another, verified in stage 1.
C1_Witness ==
    /\ pc = "returned"
    /\ career_url = "https://jobs.ashbyhq.com/acme"
    /\ current_ats = "lever"
    /\ Len(log) = 1 /\ log[1].stage = 1 /\ log[1].ok
    /\ result.ats_type = "ashby"

\* C2: the guess stage never accepts a guessed slug whose verification
\* reports zero postings: after such a verification the search goes on (or
\* ends unverified), and an endpoint the guess stage returns has
\* job_count > 0.
C2_GuessNeverAcceptsEmpty ==
    /\ (Len(log) >= 1 /\ Last(log).stage = 3 /\ Last(log).ok /\ Last(log).count = 0) =>
           pc \in {"guess", "exhausted"} \/ (pc = "returned" /\ ~result.verified)
    /\ (pc = "returned" /\ result.verified /\ Last(log).stage = 3) =>
           result.job_count > 0 /\ result.job_count = Last(log).count

\* C2's case: an empty board was found and skipped, and a later guess was accepted.
C2_Witness ==
    /\ pc = "returned"
    /\ result.verified
    /\ Last(log).stage = 3
    /\ \E i \in 1..Len(log) : log[i].stage = 3 /\ log[i].ok /\ log[i].count = 0

\* C3: when no stage produced a verified candidate, the endpoint returned
\* carries the caller's backend type and career URL, verified = false and
\* job_count = 0.
C3_FailureEndpoint ==
    (pc = "returned" /\ NoStageVerified) =>
        /\ result.ats_type = current_ats
        /\ result.direct_url = career_url
        /\ result.verified = FALSE
        /\ result.job_count = 0

\* C3's case: every stage ran, the last guess failed, and the declared backend
\* differs from the one the URL names.
C3_Witness ==
    /\ pc = "returned"
    /\ NoStageVerified
    /\ Len(log) >= 5
    /\ Last(log).stage = 3
    /\ career_url = "https://jobs.ashbyhq.com/acme"
    /\ result.ats_type = "lever"

\* C4: analyze_company never raises, whatever the company name (the empty
\* string and names of whitespace only included), the career URL and the
\* network.
C4_NeverRaises == pc # "raised"

\* C5: a verified endpoint comes from a successful live check of the same
\* call: the last request is a verification that returned ok, job_count is its
\* count, and direct_url is the canonical board URL of its (ats_type, slug).
C5_VerifiedOnlyByLiveCheck ==
    result.verified =>
        /\ pc = "returned"
        /\ Len(log) >= 1
        /\ Last(log).op = "verify"
        /\ Last(log).ok
        /\ result.ats_type = Last(log).ats
        /\ result.job_count = Last(log).count
        /\ result.direct_url # ""
        /\ result.direct_url = build_direct_url(Last(log).ats, Last(log).arg)

\* C5's case: an endpoint verified in the embedded-markup stage, with postings.
C5_Witness ==
    /\ pc = "returned"
    /\ result.verified
    /\ Last(log).stage = 2
    /\ result.job_count > 0
    /\ result.direct_url = "https://jobs.lever.co/acme"

\* ------------------------------------------------------------------ the verifier alone

VerifyInputs ==
    {[fn |-> "verify_ats", ats |-> a, slug |-> "acme", resp |-> r, resps |-> <<>>] :
        a \in {"greenhouse", "lever", "ashby", "workday", "custom"},
        r \in ApiResponses \cup WorkdayResponses}
    \cup
    {[fn |-> "check_workday", ats |-> "workday", slug |-> n, resp |-> ExcResponse,
      resps |-> rs] : n \in {"Acme", "Two Sigma"}, rs \in [1..3 -> WorkdayResponses]}

NoOutput == [raised |-> FALSE, ok |-> FALSE, count |-> 0, some |-> FALSE, url |-> ""]

InitVerify ==
    /\ name = "" /\ career_url = "" /\ current_ats = ""
    /\ cand = NoDetection /\ order = <<>> /\ gi = 1 /\ vi = 1
    /\ log = <<>> /\ result = NoResult
    /\ pc = "call"
    /\ fn_in \in VerifyInputs
    /\ fn_out = NoOutput

\* verify_ats(ats_type, slug) against the response fn_in.resp.
CallVerifyAts ==
    /\ pc = "call"
    /\ fn_in.fn = "verify_ats"
    /\ LET v == verify_ats(fn_in.ats, fn_in.slug, fn_in.resp) IN
       fn_out' = [raised |-> v.raised, ok |-> v.ok, count |-> v.count,
                  some |-> FALSE, url |-> ""]
    /\ pc' = "done"
    /\ UNCHANGED <<resolver_vars, fn_in>>

\* check_workday(career_url, company_name) against the responses fn_in.resps.
CallCheckWorkday ==
    /\ pc = "call"
    /\ fn_in.fn = "check_workday"
    /\ LET w == check_workday(fn_in.slug, fn_in.resps) IN
       fn_out' = [raised |-> FALSE, ok |-> FALSE, count |-> w.count,
                  some |-> w.some, url |-> w.url]
    /\ pc' = "done"
    /\ UNCHANGED <<resolver_vars, fn_in>>

NextVerify == CallVerifyAts \/ CallCheckWorkday

SpecVerify == InitVerify /\ [][NextVerify]_vars

\* ------------------------------------------------------------------ properties of the verifier

IsVerifyCall == pc = "done" /\ fn_in.fn = "verify_ats"

RestBackends == {"greenhouse", "lever", "ashby"}

GreenhouseBody(n) == JObj(<<<<"jobs", JList(n)>>>>)
LeverBody(n) == JList(n)
AshbyBody(n) ==
    JObj(<<<<"data", JObj(<<<<"jobBoard", JObj(<<<<"jobPostings", JList(n)>>>>)>>>>)>>>>)

\* Whether the body holds a list of postings at the backend's path.
HasPostingList(ats, body) ==
    \E n \in 0..MaxJobs :
        \/ ats = "greenhouse" /\ body = GreenhouseBody(n)
        \/ ats = "lever" /\ body = LeverBody(n)
        \/ ats = "ashby" /\ body = AshbyBody(n)

\* A response that is a failure for the backend: an exception of the client,
\* a status other than 200, a body that is no JSON, and a body of unexpected
\* shape: every body but the one that holds the list of postings at the
\* backend's path.
FailureFor(ats, resp) ==
    \/ resp.exc
    \/ resp.status # 200
    \/ ~HasPostingList(ats, resp.body)

\* C6: the verifier never raises, and for each backend an exception of the
\* client, a non-200 status, a non-JSON body and a body of unexpected shape
\* (a list where an object is expected, a null at the postings path, an
\* object without the postings) all give (false, 0).
C6_VerifierNeverRaises ==
    IsVerifyCall =>
        /\ ~fn_out.raised
        /\ (fn_in.ats \in RestBackends /\ FailureFor(fn_in.ats, fn_in.resp)) =>
               (~fn_out.ok /\ fn_out.count = 0)

\* C7: a 200 answer with n postings at the backend's path gives (true, n),
\* (true, 0) for an empty list; a 404 or 500 answer gives (false, 0).
C7_CountsPostings ==
    (IsVerifyCall /\ fn_in.ats \in RestBackends /\ ~fn_in.resp.exc) =>
        /\ \A n \in 0..MaxJobs :
             (/\ fn_in.resp.status = 200
              /\ \/ fn_in.ats = "greenhouse" /\ fn_in.resp.body = GreenhouseBody(n)
                 \/ fn_in.ats = "lever" /\ fn_in.resp.body = LeverBody(n)
                 \/ fn_in.ats = "ashby" /\ fn_in.resp.body = AshbyBody(n))
             => (fn_out.ok /\ fn_out.count = n)
        /\ fn_in.resp.status \in {404, 500} => (~fn_out.ok /\ fn_out.count = 0)

\* C7's case: ashby answers 200 with an empty posting list.
C7_Witness ==
    /\ IsVerifyCall
    /\ fn_in.ats = "ashby"
    /\ fn_in.resp.status = 200
    /\ fn_in.resp.body = AshbyBody(0)
    /\ fn_out.ok /\ fn_out.count = 0

\* C8: verify returns ok = true only if the response is HTTP 200 and the body
\* holds a list of postings at the backend's path; a 200 body without that
\* list is not reported as ok.
C8_OkOnlyWithPostingList ==
    (IsVerifyCall /\ fn_out.ok) =>
        /\ ~fn_in.resp.exc
        /\ fn_in.resp.status = 200
        /\ HasPostingList(fn_in.ats, fn_in.resp.body)

\* A candidate page that answers 200 and holds the workday marker.
MarkerPage(resp) ==
    ~resp.exc /\ resp.status = 200 /\ resp.text = "<html>Workday careers</html>"

\* C9: for the workday backend a candidate page answering 200 with the marker
\* is reported as existing with the count -1, by the stand-alone check and by
\* the verify_ats dispatch alike.
C9_WorkdaySentinel ==
    pc = "done" =>
        /\ (fn_in.fn = "check_workday" /\ \E k \in 1..3 : MarkerPage(fn_in.resps[k])) =>
               (fn_out.some /\ fn_out.count = -1)
        /\ (fn_in.fn = "verify_ats" /\ fn_in.ats = "workday" /\ MarkerPage(fn_in.resp)) =>
               (fn_out.ok /\ fn_out.count = -1)

\* ------------------------------------------------------------------ the URL round trip

SlugChars == {"a", "z", "0", "_", "-"}

RECURSIVE SlugsOfLen(_)
SlugsOfLen(n) ==
    IF n = 0 THEN {""} ELSE {c \o s : c \in SlugChars, s \in SlugsOfLen(n - 1)}

\* The non-empty slugs of at most MaxSlugLen characters, and the resolver's
\* own example.
Slugs == UNION {SlugsOfLen(n) : n \in 1..MaxSlugLen} \cup {"scale-ai", "scaleai"}

InitUrl ==
    /\ name = "" /\ career_url = "" /\ current_ats = ""
    /\ cand = NoDetection /\ order = <<>> /\ gi = 1 /\ vi = 1
    /\ log = <<>> /\ result = NoResult
    /\ pc = "call"
    /\ fn_in \in {[ats |-> a, slug |-> s] : a \in {"greenhouse", "lever", "ashby"}, s \in Slugs}
    /\ fn_out = NoDetection

\* detect_from_url(build_direct_url(ats_type, slug))
CallRoundTrip ==
    /\ pc = "call"
    /\ fn_out' = detect_from_url(build_direct_url(fn_in.ats, fn_in.slug))
    /\ pc' = "done"
    /\ UNCHANGED <<resolver_vars, fn_in>>

NextUrl == CallRoundTrip

SpecUrl == InitUrl /\ [][NextUrl]_vars

\* C10: for greenhouse, lever and ashby and every non-empty slug of letters,
\* digits, underscores and hyphens, classifying the canonical board URL of
\* (backend, slug) gives back exactly (backend, slug).
C10_RoundTrip ==
    pc = "done" =>
        /\ fn_out.found
        /\ fn_out.ats = fn_in.ats
        /\ fn_out.some
        /\ fn_out.v = fn_in.slug

\* ------------------------------------------------------------------ markup classification alone

\* The largest number of indicators on a page of markup.
MaxIndicators == 2

\* Pieces of markup that each carry one indicator of a backend.
IndicatorSnippets ==
    {"<div data-greenhouse-embed=\"acme\">",
     "<script src=\"//greenhouse.io/s.js\">",
     "<iframe src=\"//greenhouse.io/f\">",
     "<a href=\"//boards.greenhouse.io/beta\">",
     "{\"greenhouse\": {\"board_token\": \"gamma\"}}",
     "<iframe src=\"//lever.co/f\">",
     "<a href=\"//jobs.lever.co/delta\">",
     "<a href=\"//jobs.ashbyhq.com/omega\">"}

\* The markup made of n snippets.
RECURSIVE MarkupOf(_)
MarkupOf(n) ==
    IF n = 0 THEN {""} ELSE {a \o m : a \in IndicatorSnippets, m \in MarkupOf(n - 1)}

Markups == UNION {MarkupOf(n) : n \in 0..MaxIndicators}

InitHtml ==
    /\ name = "" /\ career_url = "" /\ current_ats = ""
    /\ cand = NoDetection /\ order = <<>> /\ gi = 1 /\ vi = 1
    /\ log = <<>> /\ result = NoResult
    /\ pc = "call"
    /\ fn_in \in {[html |-> m] : m \in Markups}
    /\ fn_out = NoDetection

\* detect_from_html(html)
CallDetectFromHtml ==
    /\ pc = "call"
    /\ fn_out' = detect_from_html(fn_in.html)
    /\ pc' = "done"
    /\ UNCHANGED <<resolver_vars, fn_in>>

NextHtml == CallDetectFromHtml

SpecHtml == InitHtml /\ [][NextHtml]_vars

\* The indicators of a backend that match the markup, as indices of the table.
IndicatorHits(html, ats) ==
    {k \in 1..Len(HTML_INDICATORS) :
        HTML_INDICATORS[k].ats = ats /\ Search(HTML_INDICATORS[k].pat, html).found}

\* The priority order the specification states for the kinds of indicator.
StatedRank(kind) ==
    CASE kind = "embed" -> 1
      [] kind = "script" -> 2
      [] kind = "iframe" -> 3
      [] kind = "link" -> 4
      [] kind = "config" -> 5
      [] OTHER -> 6

\* C11: markup classification scans a backend's indicators in the order embed
\* widget, script source, iframe source, board hyperlink, configuration blob:
\* when several indicators of the detected backend match, the value returned
\* is the value of a matching indicator that is earliest in that order.
C11_IndicatorPriority ==
    (pc = "done" /\ fn_out.found) =>
        LET hits == IndicatorHits(fn_in.html, fn_out.ats) IN
        (\A j \in hits : StatedRank(HTML_INDICATORS[j].kind) <= 5) =>
            \E k \in hits :
                /\ \A j \in hits :
                     StatedRank(HTML_INDICATORS[k].kind) <= StatedRank(HTML_INDICATORS[j].kind)
                /\ fn_out.v = Search(HTML_INDICATORS[k].pat, fn_in.html).v

\* ------------------------------------------------------------------ heuristic crawler: text and URLs

\* str.strip()
Strip(s) ==
    LET inner == {i \in 1..Len(s) : ~IsSpace(Ch(s, i))} IN
    IF inner = {} THEN "" ELSE SubSeq(s, SetMin(inner), SetMax(inner))

\* str.rstrip('/')
RStripSlashes(s) ==
    LET inner == {i \in 1..Len(s) : Ch(s, i) # "/"} IN
    IF inner = {} THEN "" ELSE SubSeq(s, 1, SetMax(inner))

\* [line.strip() for line in text.split('\n') if line.strip()]
RECURSIVE StrippedLines(_)
StrippedLines(text) ==
    LET nl == FindAny(text, {"\n"})
        line == Strip(IF nl = 0 THEN text ELSE SubSeq(text, 1, nl - 1))
        here == IF line = "" THEN <<>> ELSE <<line>>
    IN IF nl = 0 THEN here ELSE here \o StrippedLines(SubSeq(text, nl + 1, Len(text)))

\* str.split(): the whitespace-separated words, as a set.
RECURSIVE SplitWords(_)
SplitWords(s) ==
    LET w == FirstWord(s) IN
    IF w = "" THEN {}
    ELSE LET b == SetMin({i \in 1..Len(s) : ~IsSpace(Ch(s, i))}) IN
         {w} \cup SplitWords(SubSeq(s, b + Len(w), Len(s)))

\* urljoin: the segments with "." and ".." applied.
RECURSIVE ResolveSegments(_, _)
ResolveSegments(segments, resolved) ==
    IF Len(segments) = 0 THEN resolved
    ELSE ResolveSegments(Tail(segments),
             IF Head(segments) = ".."
             THEN (IF Len(resolved) = 0 THEN resolved
                   ELSE SubSeq(resolved, 1, Len(resolved) - 1))
             ELSE IF Head(segments) = "." THEN resolved
             ELSE Append(resolved, Head(segments)))

\* '/'.join(resolved_path) or '/'
JoinedPath(resolved) == IF JoinWith(resolved, "/") = "" THEN "/" ELSE JoinWith(resolved, "/")

\* The resolved path: a "." or ".." at the end leaves a trailing "/".
ClosedPath(segments) ==
    JoinedPath(IF segments[Len(segments)] \in {".", ".."}
               THEN Append(ResolveSegments(segments, <<>>), "")
               ELSE ResolveSegments(segments, <<>>))

\* segments[1:-1] = filter(None, segments[1:-1])
FilterInner(all) ==
    IF Len(all) <= 2 THEN all
    ELSE <<all[1]>>
         \o SelectSeq(SubSeq(all, 2, Len(all) - 1), LAMBDA seg : seg # "")
         \o <<all[Len(all)]>>

\* base_parts: the segments of the base's path without the last, unless the
\* last is empty.
BaseParts(split) ==
    IF split[Len(split)] # "" THEN SubSeq(split, 1, Len(split) - 1) ELSE split

\* The path of urljoin: the segments of the reference resolved against the
\* directory of the base's path.
ResolvedPath(bpath, path) ==
    IF StartsWith(path, "/") THEN ClosedPath(SplitOn(path, "/"))
    ELSE ClosedPath(FilterInner(BaseParts(SplitOn(bpath, "/")) \o SplitOn(path, "/")))

\* urljoin once the reference is on the base's scheme and has no netloc of
\* its own.
JoinRelative(b, u, netloc) ==
    IF u.path = "" /\ u.params = ""
    THEN urlunparse(u.scheme, netloc, b.path, b.params,
                    IF u.query = "" THEN b.query ELSE u.query, u.fragment)
    ELSE urlunparse(u.scheme, netloc, ResolvedPath(b.path, u.path), u.params,
                    u.query, u.fragment)

\* urljoin once both URLs are parsed.
JoinParsed(b, u, url) ==
    IF u.scheme # b.scheme \/ u.scheme \notin USES_RELATIVE THEN url
    ELSE IF u.scheme \in USES_NETLOC /\ u.netloc # ""
    THEN urlunparse(u.scheme, u.netloc, u.path, u.params, u.query, u.fragment)
    ELSE JoinRelative(b, u, IF u.scheme \in USES_NETLOC THEN b.netloc ELSE u.netloc)

JoinReference(b, u, url) ==
    IF u.raised THEN [raised |-> TRUE, v |-> ""]
    ELSE [raised |-> FALSE, v |-> JoinParsed(b, u, url)]

JoinBase(b, url) ==
    IF b.raised THEN [raised |-> TRUE, v |-> ""]
    ELSE JoinReference(b, urlparse(url, b.scheme), url)

\* urllib.parse.urljoin(base, url); raised when urlparse raises ValueError for
\* one of the two.
urljoin(base, url) ==
    IF base = "" THEN [raised |-> FALSE, v |-> url]
    ELSE IF url = "" THEN [raised |-> FALSE, v |-> base]
    ELSE JoinBase(urlparse(base, ""), url)

\* ------------------------------------------------------------------ heuristic crawler: link admissibility

JOB_URL_PATTERNS == <<
    <<LitCased("/job"), OptCased("s"), LitCased("/")>>,
    <<LitCased("/career"), OptCased("s"), LitCased("/")>>,
    <<LitCased("/position"), OptCased("s"), LitCased("/")>>,
    <<LitCased("/opening"), OptCased("s"), LitCased("/")>>,
    <<LitCased("/opportunitie"), OptCased("s"), LitCased("/")>>,
    <<LitCased("/details/")>>,
    <<LitCased("/job-details/")>>,
    <<LitCased("/apply/")>>,
    <<LitCased("/requisition/")>>,
    <<LitCased("/posting/")>>,
    <<LitCased("greenhouse.io/"), Cls("any", "*"), LitCased("jobs")>>,
    <<LitCased("lever.co/")>>,
    <<LitCased("ashbyhq.com/")>>,
    <<LitCased("workable.com/")>>,
    <<LitCased("smartrecruiters.com/")>>,
    <<LitCased("myworkday")>>,
    <<LitCased("icims.com/")>> >>

EXCLUDE_PATTERNS == <<
    <<LitCased("/search")>>, <<LitCased("/filter")>>, <<LitCased("/category")>>,
    <<LitCased("/team")>>, <<LitCased("/location")>>, <<LitCased("/department")>>,
    <<LitCased("/login")>>, <<LitCased("/signin")>>, <<LitCased("/about")>>,
    <<LitCased("/blog")>>, <<LitCased("/news")>>, <<LitCased("#")>>,
    <<LitCased("javascript:")>> >>

\* any(re.search(pattern, text) for pattern in patterns)
AnyPattern(patterns, text) ==
    \E k \in 1..Len(patterns) : Search(patterns[k], text).found

\* _is_job_url with the exclusions checked after the job patterns.
IsJobUrlInclusionFirst(url) ==
    IF AnyPattern(JOB_URL_PATTERNS, Lower(url)) THEN TRUE
    ELSE FALSE

\* _is_job_url: the exclusions are checked first.
_is_job_url(url) ==
    LET url_lower == Lower(url) IN
    IF AnyPattern(EXCLUDE_PATTERNS, url_lower) THEN FALSE
    ELSE AnyPattern(JOB_URL_PATTERNS, url_lower)

\* _normalize_url: netloc and path, trailing slashes stripped; raised when
\* urlparse raises ValueError.
NormalizeParsed(parsed) ==
    IF parsed.raised THEN [raised |-> TRUE, v |-> ""]
    ELSE [raised |-> FALSE, v |-> RStripSlashes(parsed.netloc \o parsed.path)]

_normalize_url(url) == NormalizeParsed(urlparse(url, ""))

\* ------------------------------------------------------------------ heuristic crawler: job records

SKIP_WORDS ==
    {"apply", "view all", "see all", "load more", "show more", "back", "next", "previous"}

\* len(title) > 10 and len(title) < 150
InTitleBand(text) == Len(text) > 10 /\ Len(text) < 150

\* The fallback of _extract_title: the first child element a title selector
\* finds whose stripped text is in the band.
RECURSIVE FirstHeading(_, _)
FirstHeading(headings, k) ==
    IF k > Len(headings) THEN ""
    ELSE LET text == Strip(headings[k]) IN
         IF text # "" /\ InTitleBand(text) THEN text ELSE FirstHeading(headings, k + 1)

\* _extract_title: the first non-empty line of the link's own text when it is
\* in the band and holds no skip word, else the fallback, else "".
_extract_title(link) ==
    LET lines == StrippedLines(Strip(link.text))
        own == IF lines # <<>> THEN lines[1] ELSE ""
    IN IF /\ lines # <<>>
          /\ InTitleBand(own)
          /\ \A w \in SKIP_WORDS : ~Contains(Lower(own), w)
       THEN own
       ELSE FirstHeading(link.headings, 1)

\* _matches_query with all() in the place of any().
MatchesQueryAllTerms(title, query_terms) ==
    \A term \in query_terms : Contains(Lower(title), term)

\* _matches_query: some term is a substring of the lowercased title.
_matches_query(title, query_terms) ==
    \E term \in query_terms : Contains(Lower(title), term)

SENIOR_CUES == {"senior", "sr.", "sr ", "staff", "principal", "lead", " iv", " v"}
ENTRY_CUES == {"junior", "jr.", "jr ", "entry", "associate", "new grad", " i ", " 1 "}
MID_CUES == {" ii", " 2", " iii", " 3", "mid"}

HasCue(title, cues) == \E x \in cues : Contains(Lower(title), x)

\* _infer_level with the mid tier checked before the senior tier.
InferLevelMidFirst(title) ==
    IF HasCue(title, MID_CUES) THEN "mid"
    ELSE IF HasCue(title, SENIOR_CUES) THEN "senior"
    ELSE IF HasCue(title, ENTRY_CUES) THEN "entry"
    ELSE ""

\* _infer_level: the tiers are checked in the order senior, entry, mid.
_infer_level(title) ==
    IF HasCue(title, SENIOR_CUES) THEN "senior"
    ELSE IF HasCue(title, ENTRY_CUES) THEN "entry"
    ELSE IF HasCue(title, MID_CUES) THEN "mid"
    ELSE ""

\* JobFilters.location: None, or a string.
NoLocation == [some |-> FALSE, v |-> ""]
SomeLocation(v) == [some |-> TRUE, v |-> v]

\* "remote" in location.lower() if location else False
IsRemote(location) == location # "" /\ Contains(Lower(location), "remote")

\* The location check of _extract_jobs without the test of remote_only.
LocationRejectsAnyMode(filters, location) ==
    /\ ~IsRemote(location)
    /\ filters.location.some /\ filters.location.v # ""
    /\ location # ""
    /\ ~Contains(Lower(location), Lower(filters.location.v))

\* The location check of _extract_jobs: whether the link is skipped.
LocationRejects(filters, location) ==
    /\ filters.remote_only
    /\ ~IsRemote(location)
    /\ filters.location.some /\ filters.location.v # ""
    /\ location # ""
    /\ ~Contains(Lower(location), Lower(filters.location.v))

\* Job(...) with the source left at its default.
JobDefaultSource(title, company, location, url) ==
    [title |-> title, company |-> company, location |-> location, url |-> url,
     source |-> "", remote |-> IsRemote(location),
     experience_level |-> _infer_level(title)]

\* The Job that _extract_jobs appends.
Job(title, company, location, url) ==
    [title |-> title, company |-> company, location |-> location, url |-> url,
     source |-> "crawler", remote |-> IsRemote(location),
     experience_level |-> _infer_level(title)]

\* ------------------------------------------------------------------ heuristic crawler: extraction

\* An anchor of the page as _extract_jobs sees it: its href attribute, its own
\* inner text, the inner texts of the child elements the title selectors find,
\* the location _extract_location returns, and whether reading the href raises.
Anchor(href, text, headings, location, fails) ==
    [href |-> href, text |-> text, headings |-> headings, location |-> location,
     fails |-> fails]

\* The state of the loop of _extract_jobs; from is the index of the anchor
\* each job was appended for.
NoJobs == [jobs |-> <<>>, from |-> <<>>, seen |-> {}]

\* url_key of an anchor: the normalized joined URL; raised when urljoin or
\* _normalize_url raises.
KeyOfJoined(full_url) ==
    IF full_url.raised THEN [raised |-> TRUE, v |-> ""]
    ELSE _normalize_url(full_url.v)

UrlKey(base_url, href) == KeyOfJoined(urljoin(base_url, href))

\* What one iteration does with an anchor: "continue" before the URL is
\* added to seen_urls (an exception raised by then included), "seen" when
\* it continues after adding it, "append".
OutcomeWithKey(link, seen, url_key, filters) ==
    IF link.fails THEN "continue"
    ELSE IF ~_is_job_url(link.href) THEN "continue"
    ELSE IF url_key.raised THEN "continue"
    ELSE IF url_key.v \in seen THEN "continue"
    ELSE IF _extract_title(link) = "" THEN "seen"
    ELSE IF ~_matches_query(_extract_title(link), SplitWords(Lower(filters.query))) THEN "seen"
    ELSE IF LocationRejects(filters, link.location) THEN "seen"
    ELSE "append"

AnchorOutcome(link, seen, base_url, filters) ==
    OutcomeWithKey(link, seen, UrlKey(base_url, link.href), filters)

\* The loop of _extract_jobs from anchor i on.
RECURSIVE ExtractLoop(_, _, _, _, _, _)
ExtractLoop(links, i, acc, company_name, base_url, filters) ==
    IF i > Len(links) THEN acc
    ELSE LET full_url == urljoin(base_url, links[i].href).v
             url_key == UrlKey(base_url, links[i].href).v
             outcome == AnchorOutcome(links[i], acc.seen, base_url, filters)
             added == [acc EXCEPT !.seen = @ \cup {url_key}]
             appended == [added EXCEPT
                            !.jobs = Append(@, Job(_extract_title(links[i]), company_name,
                                                   links[i].location, full_url)),
                            !.from = Append(@, i)]
         IN CASE outcome = "continue" ->
                   ExtractLoop(links, i + 1, acc, company_name, base_url, filters)
              [] outcome = "seen" ->
                   ExtractLoop(links, i + 1, added, company_name, base_url, filters)
              [] OTHER ->
                   IF Len(appended.jobs) >= filters.limit THEN appended
                   ELSE ExtractLoop(links, i + 1, appended, company_name, base_url, filters)

\* _extract_jobs over the anchors page.query_selector_all('a[href]') returns.
_extract_jobs(links, company_name, base_url, filters) ==
    ExtractLoop(links, 1, NoJobs, company_name, base_url, filters)

\* ------------------------------------------------------------------ extraction alone

\* The largest number of anchors on a page.
MaxLinks == 2
\* The largest filters.limit.
MaxLimit == 2

\* The anchors pages are made of: two anchors of one job that differ in the
\* query, a third of the same job with no acceptable title, a remote job, an
\* excluded URL, a job elsewhere, a job with no location whose title is in a
\* child element, an anchor whose href cannot be read, and an anchor whose
\* href urljoin raises ValueError for.
Anchors ==
    {Anchor("/jobs/1", "Senior Engineer II", <<>>, "Austin, TX", FALSE),
     Anchor("/jobs/1?utm_source=x", "Senior Engineer II", <<>>, "Austin, TX", FALSE),
     Anchor("/jobs/1/", "Apply", <<"Apply now">>, "", FALSE),
     Anchor("/jobs/2", "Data Engineer, Remote", <<>>, "Remote - US", FALSE),
     Anchor("/jobs/search", "Search Engineer jobs", <<>>, "", FALSE),
     Anchor("/jobs/3", "Product Design Engineer", <<>>, "Berlin, Germany", FALSE),
     Anchor("/jobs/4", "Logo", <<"Staff Engineer (Platform)">>, "", FALSE),
     Anchor("/jobs/5", "Principal Engineer", <<>>, "Remote", TRUE),
     Anchor("//[acme.com/jobs/6", "Platform Engineer", <<>>, "Remote", FALSE)}

RECURSIVE PagesOf(_)
PagesOf(n) ==
    IF n = 0 THEN {<<>>} ELSE {<<a>> \o pg : a \in Anchors, pg \in PagesOf(n - 1)}

\* The pages of at most MaxLinks anchors.
Pages == UNION {PagesOf(n) : n \in 0..MaxLinks}

\* JobFilters
Filters ==
    {[query |-> "engineer", location |-> l, remote_only |-> r, limit |-> n] :
        l \in {NoLocation, SomeLocation(""), SomeLocation("austin")},
        r \in BOOLEAN,
        n \in 0..MaxLimit}
    \cup
    {[query |-> q, location |-> NoLocation, remote_only |-> FALSE, limit |-> MaxLimit] :
        q \in {"Data designer", "", " \t "}}

DefaultFilters == [query |-> "engineer", location |-> NoLocation, remote_only |-> FALSE,
                   limit |-> MaxLimit]

HrefInputs ==
    {"/jobs/1", "/jobs/search", "/about", "/pricing", "", "#", "/Jobs/SEARCH",
     "/careers/team/7", "/job/7", "/blog/jobs/", "https://jobs.lever.co/acme/login"}

TitleInputs ==
    {"Senior Engineer II", "Junior Engineer II", "Software Engineer", "Engineer II (Backend)",
     "Senior Associate Engineer", "Lead Junior Engineer 2", "Data Engineer I",
     "Associate Designer", "Engineer IV"}

ExtractInputs ==
    {[fn |-> "_extract_jobs", company_name |-> "Acme", base_url |-> "https://acme.com/careers",
      filters |-> f, links |-> pg, arg |-> ""] : f \in Filters, pg \in Pages}
    \cup
    {[fn |-> "_extract_jobs", company_name |-> "Globex",
      base_url |-> "https://globex.com/careers/", filters |-> DefaultFilters, links |-> pg,
      arg |-> ""] : pg \in Pages}
    \cup
    {[fn |-> "_is_job_url", company_name |-> "", base_url |-> "", filters |-> DefaultFilters,
      links |-> <<>>, arg |-> h] : h \in HrefInputs}
    \cup
    {[fn |-> "_infer_level", company_name |-> "", base_url |-> "", filters |-> DefaultFilters,
      links |-> <<>>, arg |-> t] : t \in TitleInputs}

NoExtraction == [jobs |-> <<>>, from |-> <<>>, seen |-> {}, flag |-> FALSE, level |-> ""]

InitExtract ==
    /\ name = "" /\ career_url = "" /\ current_ats = ""
    /\ cand = NoDetection /\ order = <<>> /\ gi = 1 /\ vi = 1
    /\ log = <<>> /\ result = NoResult
    /\ pc = "call"
    /\ fn_in \in ExtractInputs
    /\ fn_out = NoExtraction

\* _extract_jobs(page, company_name, base_url, filters)
CallExtractJobs ==
    /\ pc = "call"
    /\ fn_in.fn = "_extract_jobs"
    /\ LET x == _extract_jobs(fn_in.links, fn_in.company_name, fn_in.base_url, fn_in.filters)
       IN fn_out' = [NoExtraction EXCEPT !.jobs = x.jobs, !.from = x.from, !.seen = x.seen]
    /\ pc' = "done"
    /\ UNCHANGED <<resolver_vars, fn_in>>

\* _is_job_url(url)
CallIsJobUrl ==
    /\ pc = "call"
    /\ fn_in.fn = "_is_job_url"
    /\ fn_out' = [NoExtraction EXCEPT !.flag = _is_job_url(fn_in.arg)]
    /\ pc' = "done"
    /\ UNCHANGED <<resolver_vars, fn_in>>

\* _infer_level(title)
CallInferLevel ==
    /\ pc = "call"
    /\ fn_in.fn = "_infer_level"
    /\ fn_out' = [NoExtraction EXCEPT !.level = _infer_level(fn_in.arg)]
    /\ pc' = "done"
    /\ UNCHANGED <<resolver_vars, fn_in>>

NextExtract == CallExtractJobs \/ CallIsJobUrl \/ CallInferLevel

SpecExtract == InitExtract /\ [][NextExtract]_vars

\* ------------------------------------------------------------------ properties of the extraction

IsExtractCall == pc = "done" /\ fn_in.fn = "_extract_jobs"

\* The anchor was appended as a job.
Recorded(k) == \E i \in 1..Len(fn_out.from) : fn_out.from[i] = k

\* The href matches an exclusion pattern.
Excluded(href) == AnyPattern(EXCLUDE_PATTERNS, Lower(href))

\* The normalized URL of anchor k of the page.
KeyOf(k) == UrlKey(fn_in.base_url, fn_in.links[k].href)

\* The anchor is admissible and, were it the only anchor of the page, would
\* yield a record.
YieldsAlone(k) ==
    AnchorOutcome(fn_in.links[k], {}, fn_in.base_url, fn_in.filters) = "append"

\* The loop got to anchor k: the limit did not stop it earlier.
Reached(k) ==
    LET before == Cardinality({i \in 1..Len(fn_out.from) : fn_out.from[i] < k}) IN
    before = 0 \/ before < fn_in.filters.limit

\* Anchor k got as far as the location check: it was reached, is admissible,
\* is the first anchor of its normalized URL, and has a title in the query.
Considered(k) ==
    /\ Reached(k)
    /\ AnchorOutcome(fn_in.links[k], {}, fn_in.base_url,
                     [fn_in.filters EXCEPT !.remote_only = FALSE]) = "append"
    /\ \A a \in 1..(k - 1) :
         (~fn_in.links[a].fails /\ _is_job_url(fn_in.links[a].href)) => KeyOf(a) # KeyOf(k)

\* C15: exclusion precedence: an href that matches an exclusion pattern is
\* never a job URL, whether or not it matches a job pattern too, and no record
\* of the extraction comes from an anchor whose href matches an exclusion
\* pattern.
C15_ExclusionPrecedence ==
    pc = "done" =>
        /\ (fn_in.fn = "_is_job_url" /\ Excluded(fn_in.arg)) => ~fn_out.flag
        /\ fn_in.fn = "_extract_jobs" =>
               \A k \in 1..Len(fn_in.links) : Excluded(fn_in.links[k].href) => ~Recorded(k)

\* C15's case: a page with an anchor to "/jobs/search", which matches a job
\* pattern and an exclusion, and an anchor that is recorded.
C15_Witness ==
    /\ IsExtractCall
    /\ Len(fn_in.links) = 2
    /\ fn_in.links[1].href = "/jobs/search"
    /\ AnyPattern(JOB_URL_PATTERNS, fn_in.links[1].href)
    /\ fn_out.from = <<2>>

\* The anchor is admissible: its href is read and passes the URL test.
Admissible(k) == ~fn_in.links[k].fails /\ _is_job_url(fn_in.links[k].href)

\* C16: no two records of one extraction share a normalized URL; and two
\* admissible anchors with the same normalized URL (differing in the query or
\* a trailing slash) yield exactly one record, when the loop got to both and a
\* record is due: one of the two has an acceptable title that matches the
\* query and passes the filters.
C16_Dedup ==
    IsExtractCall =>
        /\ \A i, j \in 1..Len(fn_out.jobs) :
             _normalize_url(fn_out.jobs[i].url) = _normalize_url(fn_out.jobs[j].url) => i = j
        /\ \A a, b \in 1..Len(fn_in.links) :
             (/\ a < b
              /\ Admissible(a) /\ Admissible(b)
              /\ ~KeyOf(a).raised
              /\ KeyOf(a) = KeyOf(b)
              /\ Reached(b)
              /\ (YieldsAlone(a) \/ YieldsAlone(b)))
             => Cardinality({c \in 1..Len(fn_in.links) :
                               KeyOf(c) = KeyOf(a) /\ Recorded(c)}) = 1

\* C17: with remote_only and no location filter, every anchor whose location
\* does not contain "remote" is rejected: every record is remote.
C17_RemoteOnlyStrict ==
    (/\ IsExtractCall
     /\ fn_in.filters.remote_only
     /\ ~fn_in.filters.location.some)
    => \A i \in 1..Len(fn_out.jobs) : Contains(Lower(fn_out.jobs[i].location), "remote")

\* C18: with remote_only and a non-empty location filter, a job that is not
\* remote is accepted if and only if the filter is a substring of its
\* location, ignoring case; a job with an empty location is rejected.
C18_RemoteOnlyWithLocation ==
    (/\ IsExtractCall
     /\ fn_in.filters.remote_only
     /\ fn_in.filters.location.some
     /\ fn_in.filters.location.v # "")
    => \A k \in 1..Len(fn_in.links) :
         (Considered(k) /\ ~IsRemote(fn_in.links[k].location)) =>
             (Recorded(k) <=> Contains(Lower(fn_in.links[k].location),
                                       Lower(fn_in.filters.location.v)))

\* C19: the tiers are checked in the order senior, entry, mid and the first
\* that matches wins: a senior cue gives senior whatever else the title holds,
\* an entry cue without a senior cue gives entry, a mid cue alone gives mid,
\* and no cue gives the empty string.
C19_TierPrecedence ==
    (pc = "done" /\ fn_in.fn = "_infer_level") =>
        /\ HasCue(fn_in.arg, SENIOR_CUES) => fn_out.level = "senior"
        /\ (~HasCue(fn_in.arg, SENIOR_CUES) /\ HasCue(fn_in.arg, ENTRY_CUES)) =>
               fn_out.level = "entry"
        /\ (/\ ~HasCue(fn_in.arg, SENIOR_CUES) /\ ~HasCue(fn_in.arg, ENTRY_CUES)
            /\ HasCue(fn_in.arg, MID_CUES)) => fn_out.level = "mid"
        /\ (/\ ~HasCue(fn_in.arg, SENIOR_CUES) /\ ~HasCue(fn_in.arg, ENTRY_CUES)
            /\ ~HasCue(fn_in.arg, MID_CUES)) => fn_out.level = ""
        /\ fn_in.arg = "Senior Engineer II" => fn_out.level = "senior"

\* C19's case: "Senior Engineer II" holds a senior cue and a mid cue.
C19_Witness ==
    /\ pc = "done"
    /\ fn_in.fn = "_infer_level"
    /\ fn_in.arg = "Senior Engineer II"
    /\ HasCue(fn_in.arg, MID_CUES)
    /\ fn_out.level = "senior"

\* C20: every record has the source "crawler" and the company name the call
\* was given.
C20_SourceAndCompany ==
    IsExtractCall =>
        \A i \in 1..Len(fn_out.jobs) :
            /\ fn_out.jobs[i].source = "crawler"
            /\ fn_out.jobs[i].company = fn_in.company_name

\* C20's case: a call for "Globex" that returns two records.
C20_Witness ==
    /\ IsExtractCall
    /\ fn_in.company_name = "Globex"
    /\ Len(fn_out.jobs) = 2
    /\ fn_out.jobs[2].company = "Globex"
    /\ fn_out.jobs[2].source = "crawler"

\* ------------------------------------------------------------------ heuristic crawler: the crawl protocol

\* What a call of the browser does: it returns, raises the browser's
\* TimeoutError, or raises another exception.
CALL_OUTCOMES == {"ok", "timeout", "error"}

\* What page.query_selector(selector) gives for a selector of
\* _find_jobs_page_link: it raises, finds nothing, or finds a link.
NoElement == [kind |-> "none", href |-> ""]
QueryRaises == [kind |-> "raise", href |-> ""]
LinkElement(href) == [kind |-> "link", href |-> href]

JobsLinkProbes ==
    {NoElement, QueryRaises, LinkElement(""), LinkElement("/jobs"), LinkElement("#jobs"),
     LinkElement("/careers"), LinkElement("/Login?next=/jobs")}

\* The outcomes of the selectors of _find_jobs_page_link, in order; the
\* selectors after them find nothing.
JobsLinkOutcomes ==
    {<<>>} \cup {<<a>> : a \in JobsLinkProbes}
           \cup {<<a, b>> : a \in {NoElement, QueryRaises, LinkElement("#jobs")},
                            b \in JobsLinkProbes}

\* not any(x in href.lower() for x in ['login', 'signin', '#', 'javascript'])
JobsLinkAllowed(href) ==
    \A x \in {"login", "signin", "#", "javascript"} : ~Contains(Lower(href), x)

\* _find_jobs_page_link: the first link found whose href is non-empty and
\* allowed, joined to the base; None (some = FALSE) when there is none. A
\* selector that raises, or whose link urljoin raises for, is skipped.
RECURSIVE _find_jobs_page_link(_, _, _)
JobsLinkJoined(joined, outs, k, base_url) ==
    IF joined.raised THEN _find_jobs_page_link(outs, k + 1, base_url)
    ELSE [some |-> TRUE, v |-> joined.v]

_find_jobs_page_link(outs, k, base_url) ==
    IF k > Len(outs) THEN [some |-> FALSE, v |-> ""]
    ELSE IF /\ outs[k].kind = "link"
            /\ outs[k].href # ""
            /\ JobsLinkAllowed(outs[k].href)
         THEN JobsLinkJoined(urljoin(base_url, outs[k].href), outs, k, base_url)
         ELSE _find_jobs_page_link(outs, k + 1, base_url)

\* What a selector of _try_search gives: it raises, finds nothing, finds a
\* hidden input, or finds a visible input that is filled and submitted.
SearchOutcomes ==
    {<<>>} \cup {<<a>> : a \in {"raise", "none", "hidden", "filled"}}
           \cup {<<a, "filled">> : a \in {"raise", "none", "hidden"}}

\* _try_search: True at the first visible input that is filled, else False.
_try_search(outs) == \E k \in 1..Len(outs) : outs[k] = "filled"

\* page.url after page.goto(requested): the URL requested, or the URL a
\* redirect led the browser to.
LandingUrls(requested) ==
    {requested, "https://jobs.acme.com/", "https://boards.greenhouse.io/acme"}

\* Whether a selector got as far as the submit: the input was filled and
\* submitted, or the selector raised, which press("Enter") also does when the
\* navigation it started times out.
Submitted(outs) == \E k \in 1..Len(outs) : outs[k] \in {"filled", "raise"}

\* page.url after the search was submitted: the submit leaves the browser on
\* the page or navigates.
SubmitUrls(current) == {current, "https://jobs.acme.com/search?q=engineer"}

\* The pages a crawl extracts from.
CrawlPages ==
    {<<>>,
     <<Anchor("/jobs/1", "Senior Engineer II", <<>>, "Austin, TX", FALSE)>>,
     <<Anchor("/jobs/search", "Search Engineer jobs", <<>>, "", FALSE),
       Anchor("/jobs/2", "Data Engineer, Remote", <<>>, "Remote - US", FALSE)>>}

CrawlInputs ==
    {[company_name |-> "Acme", careers_url |-> "https://acme.com/careers",
      filters |-> [DefaultFilters EXCEPT !.remote_only = r], links |-> pg] :
        r \in BOOLEAN, pg \in CrawlPages}

\* The locals of crawl and the browser objects it created; url is page.url,
\* the URL the browser is on. failed holds the
\* steps in which a call of the browser raised; attempted says that
\* _extract_jobs asked the page for its anchors.
CrawlStart ==
    [context |-> "none", page |-> "none", url |-> "", loaded |-> FALSE,
     jobs_page_url |-> [some |-> FALSE, v |-> ""], searched |-> FALSE,
     jobs |-> <<>>, attempted |-> FALSE, exc |-> "", failed |-> {}]

InitCrawl ==
    /\ name = "" /\ career_url = "" /\ current_ats = ""
    /\ cand = NoDetection /\ order = <<>> /\ gi = 1 /\ vi = 1
    /\ log = <<>> /\ result = NoResult
    /\ pc = "new_context"
    /\ fn_in \in CrawlInputs
    /\ fn_out = CrawlStart

\* context = self.browser.new_context(...): outside the try.
NewContext ==
    /\ pc = "new_context"
    /\ \E o \in CALL_OUTCOMES :
         IF o = "ok"
         THEN fn_out' = [fn_out EXCEPT !.context = "open"] /\ pc' = "new_page"
         ELSE fn_out' = [fn_out EXCEPT !.exc = o] /\ pc' = "raised"
    /\ UNCHANGED <<resolver_vars, fn_in>>

\* page = context.new_page(): outside the try.
NewPage ==
    /\ pc = "new_page"
    /\ \E o \in CALL_OUTCOMES :
         IF o = "ok"
         THEN fn_out' = [fn_out EXCEPT !.page = "open"] /\ pc' = "goto"
         ELSE fn_out' = [fn_out EXCEPT !.exc = o] /\ pc' = "raised"
    /\ UNCHANGED <<resolver_vars, fn_in>>

\* Step 1: page.goto(careers_url); an exception goes to the except clauses
\* and the finally.
GotoCareers ==
    /\ pc = "goto"
    /\ \E o \in CALL_OUTCOMES :
         IF o = "ok"
         THEN /\ \E landed \in LandingUrls(fn_in.careers_url) :
                   fn_out' = [fn_out EXCEPT !.url = landed, !.loaded = TRUE]
              /\ pc' = "find_link"
         ELSE /\ fn_out' = [fn_out EXCEPT !.exc = o, !.failed = @ \cup {"goto"}]
              /\ pc' = "close_page"
    /\ UNCHANGED <<resolver_vars, fn_in>>

\* Step 1.5: _find_jobs_page_link(page, careers_url).
FindJobsPageLink ==
    /\ pc = "find_link"
    /\ \E outs \in JobsLinkOutcomes :
         LET found == _find_jobs_page_link(outs, 1, fn_in.careers_url)
             raised == \E k \in 1..Len(outs) : outs[k] = QueryRaises
         IN /\ fn_out' = [fn_out EXCEPT
                            !.jobs_page_url = found,
                            !.failed = IF raised THEN @ \cup {"find_link"} ELSE @]
            /\ pc' = IF found.some /\ found.v # fn_in.careers_url
                     THEN "goto_jobs" ELSE "search"
    /\ UNCHANGED <<resolver_vars, fn_in>>

\* Step 1.5: page.goto(jobs_page_url), in the try of crawl.
GotoJobsPage ==
    /\ pc = "goto_jobs"
    /\ \E o \in CALL_OUTCOMES :
         IF o = "ok"
         THEN /\ \E landed \in LandingUrls(fn_out.jobs_page_url.v) :
                   fn_out' = [fn_out EXCEPT !.url = landed]
              /\ pc' = "search"
         ELSE /\ fn_out' = [fn_out EXCEPT !.exc = o, !.failed = @ \cup {"goto_jobs"}]
              /\ pc' = "close_page"
    /\ UNCHANGED <<resolver_vars, fn_in>>

\* Step 2: _try_search(page, filters.query); the submit of a filled input
\* (press("Enter"), the click of a search button) may navigate.
TrySearch ==
    /\ pc = "search"
    /\ \E outs \in SearchOutcomes :
       \E landed \in (IF Submitted(outs) THEN SubmitUrls(fn_out.url) ELSE {fn_out.url}) :
         fn_out' = [fn_out EXCEPT
                      !.url = landed,
                      !.searched = _try_search(outs),
                      !.failed = IF \E k \in 1..Len(outs) : outs[k] = "raise"
                                 THEN @ \cup {"search"} ELSE @]
    /\ pc' = "scroll"
    /\ UNCHANGED <<resolver_vars, fn_in>>

\* Step 3: _scroll_page(page): an exception of page.evaluate ends the scrolling.
ScrollPage ==
    /\ pc = "scroll"
    /\ \E o \in CALL_OUTCOMES :
         fn_out' = [fn_out EXCEPT !.failed = IF o = "ok" THEN @ ELSE @ \cup {"scroll"}]
    /\ pc' = "extract"
    /\ UNCHANGED <<resolver_vars, fn_in>>

\* Step 4: jobs = _extract_jobs(page, company_name, page.url, filters); an
\* exception of page.query_selector_all leaves jobs as it was.
ExtractJobs ==
    /\ pc = "extract"
    /\ \E o \in CALL_OUTCOMES :
         IF o = "ok"
         THEN fn_out' = [fn_out EXCEPT
                           !.attempted = TRUE,
                           !.jobs = _extract_jobs(fn_in.links, fn_in.company_name,
                                                  fn_out.url, fn_in.filters).jobs]
         ELSE fn_out' = [fn_out EXCEPT !.attempted = TRUE, !.exc = o,
                                       !.failed = @ \cup {"extract"}]
    /\ pc' = "close_page"
    /\ UNCHANGED <<resolver_vars, fn_in>>

\* finally: page.close(); an exception leaves the finally at once.
ClosePage ==
    /\ pc = "close_page"
    /\ \E o \in CALL_OUTCOMES :
         IF o = "ok"
         THEN fn_out' = [fn_out EXCEPT !.page = "closed"] /\ pc' = "close_context"
         ELSE /\ fn_out' = [fn_out EXCEPT !.page = "close_failed", !.exc = o,
                                          !.failed = @ \cup {"close_page"}]
              /\ pc' = "raised"
    /\ UNCHANGED <<resolver_vars, fn_in>>

\* finally: context.close(), then return jobs.
CloseContext ==
    /\ pc = "close_context"
    /\ \E o \in CALL_OUTCOMES :
         IF o = "ok"
         THEN fn_out' = [fn_out EXCEPT !.context = "closed"] /\ pc' = "returned"
         ELSE /\ fn_out' = [fn_out EXCEPT !.context = "close_failed", !.exc = o,
                                          !.failed = @ \cup {"close_context"}]
              /\ pc' = "raised"
    /\ UNCHANGED <<resolver_vars, fn_in>>

NextCrawl ==
    \/ NewContext \/ NewPage \/ GotoCareers \/ FindJobsPageLink \/ GotoJobsPage
    \/ TrySearch \/ ScrollPage \/ ExtractJobs \/ ClosePage \/ CloseContext

SpecCrawl == InitCrawl /\ [][NextCrawl]_vars

\* ------------------------------------------------------------------ properties of the crawl protocol

CrawlEnded == pc \in {"returned", "raised"}

\* C12: scoped session release: when crawl returns or raises, every context
\* and page it created has been closed (a close that itself failed counts as
\* made), on every exit path: a failed page creation and a failed page close
\* included.
C12_SessionReleased ==
    CrawlEnded => (fn_out.context # "open" /\ fn_out.page # "open")

\* C13: once the context and the page exist, crawl never raises: it returns
\* the jobs extracted so far, and the empty list when the first navigation
\* failed.
C13_CrawlNeverRaises ==
    (CrawlEnded /\ fn_out.page # "none") =>
        /\ pc = "returned"
        /\ "goto" \in fn_out.failed => fn_out.jobs = <<>>
        /\ ~fn_out.attempted => fn_out.jobs = <<>>

\* C14: after the first load every step is best-effort: a failure in the
\* follow-link step (the navigation to the jobs link included), the search
\* step or the scroll step does not keep the crawl from collecting the links
\* of the loaded page and extracting jobs.
C14_StepsBestEffort ==
    (CrawlEnded /\ fn_out.loaded) => fn_out.attempted

\* ------------------------------------------------------------------ further properties of the extraction

\* The terms of the query: filters.query.lower().split()
QueryTerms == SplitWords(Lower(fn_in.filters.query))

\* C24: every record has a title that holds, in lower case, at least one term
\* of the query; an anchor whose title holds none of the terms yields no
\* record; a query with no terms yields no records.
C24_QueryMatch ==
    IsExtractCall =>
        /\ \A i \in 1..Len(fn_out.jobs) :
             \E term \in QueryTerms : Contains(Lower(fn_out.jobs[i].title), term)
        /\ \A k \in 1..Len(fn_in.links) :
             (\A term \in QueryTerms :
                 ~Contains(Lower(_extract_title(fn_in.links[k])), term)) => ~Recorded(k)
        /\ QueryTerms = {} => fn_out.jobs = <<>>

\* C24's case: the query "Data designer"; the title "Data Engineer, Remote"
\* holds one of its terms and is recorded, "Senior Engineer II" holds none.
C24_Witness ==
    /\ IsExtractCall
    /\ fn_in.filters.query = "Data designer"
    /\ Len(fn_in.links) = 2
    /\ fn_in.links[1].text = "Senior Engineer II"
    /\ fn_in.links[2].text = "Data Engineer, Remote"
    /\ fn_out.from = <<2>>

\* C25: the extraction returns at most filters.limit records, for every limit
\* from 0 on, and once the limit is reached no further anchor is processed.
C25_ResultLimit ==
    IsExtractCall =>
        /\ Len(fn_out.jobs) <= fn_in.filters.limit
        /\ \A k \in 1..Len(fn_in.links) :
             Cardinality({i \in 1..Len(fn_out.from) : fn_out.from[i] < k})
                 >= fn_in.filters.limit => ~Recorded(k)

\* C26: deduplication does not lose jobs: if an anchor would yield a record
\* were it alone on the page, and the limit does not stop the loop, the output
\* holds a record of its normalized URL, whatever anchors of the same URL
\* come before it.
C26_DedupKeepsJobs ==
    IsExtractCall =>
        \A k \in 1..Len(fn_in.links) :
            (YieldsAlone(k) /\ Len(fn_out.jobs) < fn_in.filters.limit) =>
                \E c \in 1..Len(fn_in.links) : KeyOf(c) = KeyOf(k) /\ Recorded(c)

\* The values of JobFilters.location.
LocationValues == {NoLocation, SomeLocation(""), SomeLocation("austin")}

\* C27: when remote_only is false the location filter has no influence: with
\* any other value of filters.location the same page gives the same records.
C27_LocationIgnoredUnlessRemoteOnly ==
    (IsExtractCall /\ ~fn_in.filters.remote_only) =>
        \A l \in LocationValues :
            _extract_jobs(fn_in.links, fn_in.company_name, fn_in.base_url,
                          [fn_in.filters EXCEPT !.location = l]).jobs = fn_out.jobs

\* C27's case: the filter "austin" without remote_only, and a job in Berlin
\* that is recorded.
C27_Witness ==
    /\ IsExtractCall
    /\ ~fn_in.filters.remote_only
    /\ fn_in.filters.location = SomeLocation("austin")
    /\ Len(fn_out.jobs) = 1
    /\ fn_out.jobs[1].location = "Berlin, Germany"

\* ------------------------------------------------------------------ the batch over the configured companies

\* The largest number of configured companies.
MaxCompanies == 2
\* The largest number of jobs one crawl returns.
MaxFound == 2

\* A value yaml.safe_load gives: None, a string, an integer, a list, a
\* mapping. A mapping that is an item of a list is held by reference (YRef),
\* for the alias of an anchored mapping is the same dict.
YNull == [t |-> "null", s |-> "", n |-> 0, items |-> <<>>, kv |-> <<>>]
YStr(s) == [t |-> "str", s |-> s, n |-> 0, items |-> <<>>, kv |-> <<>>]
YInt(n) == [t |-> "int", s |-> "", n |-> n, items |-> <<>>, kv |-> <<>>]
YList(items) == [t |-> "list", s |-> "", n |-> 0, items |-> items, kv |-> <<>>]
YMap(kv) == [t |-> "map", s |-> "", n |-> 0, items |-> <<>>, kv |-> kv]
YRef(id) == [t |-> "ref", s |-> "", n |-> id, items |-> <<>>, kv |-> <<>>]

\* bool(value)
YTruthy(y) ==
    CASE y.t = "null" -> FALSE
      [] y.t = "str" -> y.s # ""
      [] y.t = "int" -> y.n # 0
      [] y.t = "list" -> y.items # <<>>
      [] OTHER -> y.kv # <<>>

\* mapping[key] = value
SetItem(mapping, key, value) ==
    IF \E i \in 1..Len(mapping.kv) : mapping.kv[i][1] = key
    THEN [mapping EXCEPT !.kv = [i \in 1..Len(mapping.kv) |->
                                   IF mapping.kv[i][1] = key THEN <<key, value>>
                                   ELSE mapping.kv[i]]]
    ELSE [mapping EXCEPT !.kv = Append(@, <<key, value>>)]

\* The dicts of the entries of companies.yaml, by identity: two companies
\* with a careers URL, one without, and one with a null name and a number in
\* the place of the URL.
CompanyEntries ==
    <<YMap(<<<<"name", YStr("Acme")>>, <<"careers_url", YStr("https://acme.com/careers")>>>>),
      YMap(<<<<"name", YStr("Globex")>>, <<"careers_url", YStr("")>>>>),
      YMap(<<<<"name", YStr("Initech")>>, <<"careers_url", YStr("https://initech.com/jobs")>>>>),
      YMap(<<<<"name", YNull>>, <<"careers_url", YInt(7)>>>>)>>

\* The lists of n references to entries; an entry may be listed twice.
RECURSIVE CompanyLists(_)
CompanyLists(n) ==
    IF n = 0 THEN {<<>>}
    ELSE {<<YRef(id)>> \o l : id \in 1..Len(CompanyEntries), l \in CompanyLists(n - 1)}

\* self.companies, what _load_companies returned: the mapping of the
\* categories to their lists of entries, where an entry may be listed under
\* both categories; and a file that is missing ({}) or empty (None), a file
\* that is a list, a category that holds a scalar, and categories whose list
\* holds a name in the place of an entry.
Configs ==
    {YMap(<<<<"ai_labs", YList(a)>>, <<"big_tech", YList(b)>>>>) :
        a \in UNION {CompanyLists(n) : n \in 0..MaxCompanies},
        b \in UNION {CompanyLists(n) : n \in 0..MaxCompanies}}
    \cup {YMap(<<>>), YNull, YList(<<YStr("Acme")>>),
          YMap(<<<<"ai_labs", YStr("Acme")>>>>),
          YMap(<<<<"ai_labs", YList(<<YStr("Acme")>>)>>>>),
          YMap(<<<<"ai_labs", YList(<<YRef(1), YStr("Globex")>>)>>>>)}

\* The number of entries of a configuration.
RECURSIVE EntryCount(_)
EntryCount(kv) ==
    IF kv = <<>> THEN 0 ELSE Len(Head(kv)[2].items) + EntryCount(Tail(kv))

\* The categories argument: None (some = FALSE) or a list of categories.
CategoryArgs == {[some |-> FALSE, v |-> {}], [some |-> TRUE, v |-> {}],
                 [some |-> TRUE, v |-> {"big_tech"}], [some |-> TRUE, v |-> {"ai_labs"}]}

\* The fetcher (self.companies, with the dicts it refers to in heap) and the
\* categories argument of the call.
BatchInputs ==
    {[companies |-> l, heap |-> CompanyEntries, categories |-> c] :
        l \in {cfg \in Configs : EntryCount(cfg.kv) <= MaxCompanies}, c \in CategoryArgs}

\* get_all_companies, the inner loop: company["category"] = category writes
\* into the dict self.companies holds, and raises TypeError for an entry that
\* is not a mapping; the dicts tagged before stay tagged.
RECURSIVE TagCompanies(_, _, _, _)
TagCompanies(category, companies, all_companies, heap) ==
    IF companies = <<>> THEN [raised |-> FALSE, v |-> all_companies, heap |-> heap]
    ELSE IF Head(companies).t # "ref" THEN [raised |-> TRUE, v |-> <<>>, heap |-> heap]
    ELSE TagCompanies(category, Tail(companies),
                      Append(all_companies, Head(companies).n),
                      [heap EXCEPT ![Head(companies).n] =
                                      SetItem(@, "category", YStr(category))])

\* get_all_companies, the outer loop: a category whose value is not a list is
\* passed over.
RECURSIVE FlattenCategories(_, _, _)
FlattenTagged(tagged, rest) ==
    IF tagged.raised THEN tagged ELSE FlattenCategories(rest, tagged.v, tagged.heap)

FlattenCategories(kv, all_companies, heap) ==
    IF kv = <<>> THEN [raised |-> FALSE, v |-> all_companies, heap |-> heap]
    ELSE IF Head(kv)[2].t # "list" THEN FlattenCategories(Tail(kv), all_companies, heap)
    ELSE FlattenTagged(TagCompanies(Head(kv)[1], Head(kv)[2].items, all_companies, heap),
                       Tail(kv))

\* get_all_companies: the flat list of the entries (references to the dicts
\* of self.companies) and the dicts as the call leaves them; raised when
\* self.companies has no items() (AttributeError) or an entry is not a mapping
\* (TypeError).
get_all_companies(companies, heap) ==
    IF companies.t # "map" THEN [raised |-> TRUE, v |-> <<>>, heap |-> heap]
    ELSE FlattenCategories(companies.kv, <<>>, heap)

\* company.get("category") not in categories
NotInCategories(category, categories) ==
    ~(category.t = "str" /\ category.s \in categories)

\* fetch_all_jobs, lines 50-54: the companies of the wanted categories, in
\* order; the category is read from the dicts as get_all_companies left them.
RECURSIVE TargetCompanies(_, _, _)
TargetCompanies(companies, heap, categories) ==
    IF companies = <<>> THEN <<>>
    ELSE IF /\ categories.some /\ categories.v # {}
            /\ NotInCategories(DictGet(heap[Head(companies)], "category", YNull),
                               categories.v)
         THEN TargetCompanies(Tail(companies), heap, categories)
         ELSE <<Head(companies)>> \o TargetCompanies(Tail(companies), heap, categories)

\* company.get("name", "Unknown") and company.get("careers_url", "")
NameOf(company) == DictGet(company, "name", YStr("Unknown"))
CareersUrlOf(company) == DictGet(company, "careers_url", YStr(""))

\* The most jobs crawler.crawl returns: none when the careers URL is not a
\* string (page.goto raises inside crawl's try) or the name is not one (Job
\* rejects it, inside the try of each link).
MaxFoundFor(company_name, careers_url) ==
    IF company_name.t = "str" /\ careers_url.t = "str" THEN MaxFound ELSE 0

\* The jobs a crawl of the company returns when it finds n.
FoundJobs(company_name, careers_url, n) ==
    [k \in 1..n |->
        Job(IF k = 1 THEN "Staff Engineer (Platform)" ELSE "Data Engineer, Remote",
            company_name.s, "", careers_url.s \o (IF k = 1 THEN "/1" ELSE "/2"))]

\* The locals of fetch_all_jobs; target_companies holds references to the
\* dicts; crawled is the history of the calls of crawler.crawl: the arguments,
\* whether the call returned, and its jobs.
BatchStart ==
    [all_jobs |-> <<>>, target_companies |-> <<>>, i |-> 1, crawled |-> <<>>,
     entered |-> FALSE, raised |-> FALSE]

InitBatch ==
    /\ name = "" /\ career_url = "" /\ current_ats = ""
    /\ cand = NoDetection /\ order = <<>> /\ gi = 1 /\ vi = 1
    /\ log = <<>> /\ result = NoResult
    /\ pc = "select"
    /\ fn_in \in BatchInputs
    /\ fn_out = BatchStart

\* The state after get_all_companies returned tagged: the target companies.
SelectTargets(tagged) ==
    /\ fn_out' = [fn_out EXCEPT
                    !.target_companies =
                        TargetCompanies(tagged.v, tagged.heap, fn_in.categories)]
    /\ pc' = IF TargetCompanies(tagged.v, tagged.heap, fn_in.categories) = <<>>
             THEN "returned" ELSE "enter"

\* The state after get_all_companies ended: the dicts of self.companies carry
\* the categories it wrote; its exception leaves fetch_all_jobs.
SelectAfter(tagged) ==
    /\ fn_in' = [fn_in EXCEPT !.heap = tagged.heap]
    /\ IF tagged.raised
       THEN fn_out' = [fn_out EXCEPT !.raised = TRUE] /\ pc' = "raised"
       ELSE SelectTargets(tagged)

\* Lines 46-58: get_all_companies, outside any try, so that its exception
\* leaves fetch_all_jobs; then the target companies; with none, the call
\* returns at once.
SelectCompanies ==
    /\ pc = "select"
    /\ SelectAfter(get_all_companies(fn_in.companies, fn_in.heap))
    /\ UNCHANGED resolver_vars

\* Line 65: with GenericCareerCrawler(...) as crawler; an exception of
\* __enter__ is caught by the outer handler and the call returns.
EnterCrawler ==
    /\ pc = "enter"
    /\ \E o \in CALL_OUTCOMES :
         IF o = "ok"
         THEN fn_out' = [fn_out EXCEPT !.entered = TRUE] /\ pc' = "loop"
         ELSE fn_out' = fn_out /\ pc' = "returned"
    /\ UNCHANGED <<resolver_vars, fn_in>>

\* Lines 74-80: crawler.crawl(name, careers_url, filters) returns jobs, which
\* extend all_jobs, or raises, which the inner handler catches.
CrawlCall(company_name, careers_url) ==
    \/ fn_out' = [fn_out EXCEPT
                    !.i = @ + 1,
                    !.crawled = Append(@, [company |-> company_name,
                                           careers_url |-> careers_url,
                                           returned |-> FALSE, jobs |-> <<>>])]
    \/ \E n \in 0..MaxFoundFor(company_name, careers_url) :
         fn_out' = [fn_out EXCEPT
                      !.i = @ + 1,
                      !.all_jobs = @ \o FoundJobs(company_name, careers_url, n),
                      !.crawled = Append(@, [company |-> company_name,
                                             careers_url |-> careers_url,
                                             returned |-> TRUE,
                                             jobs |-> FoundJobs(company_name, careers_url, n)])]

\* Lines 66-80, one iteration of the loop: a company whose careers URL is
\* falsy is skipped; every other is crawled.
CrawlCompany ==
    /\ pc = "loop"
    /\ fn_out.i <= Len(fn_out.target_companies)
    /\ IF ~YTruthy(CareersUrlOf(fn_in.heap[fn_out.target_companies[fn_out.i]]))
       THEN fn_out' = [fn_out EXCEPT !.i = @ + 1]
       ELSE CrawlCall(NameOf(fn_in.heap[fn_out.target_companies[fn_out.i]]),
                      CareersUrlOf(fn_in.heap[fn_out.target_companies[fn_out.i]]))
    /\ pc' = "loop"
    /\ UNCHANGED <<resolver_vars, fn_in>>

\* Lines 82-86: the loop is over; __exit__ closes the browser (an exception
\* of it is caught by the outer handler) and all_jobs is returned.
ExitCrawler ==
    /\ pc = "loop"
    /\ fn_out.i > Len(fn_out.target_companies)
    /\ \E o \in CALL_OUTCOMES : pc' = "returned"
    /\ UNCHANGED <<resolver_vars, fn_in, fn_out>>

NextBatch == SelectCompanies \/ EnterCrawler \/ CrawlCompany \/ ExitCrawler

SpecBatch == InitBatch /\ [][NextBatch]_vars

\* ------------------------------------------------------------------ properties of the batch

\* The arguments of the crawls due: name and careers URL of the companies of
\* the list whose careers URL is truthy.
RECURSIVE WithUrl(_)
WithUrl(companies) ==
    IF companies = <<>> THEN <<>>
    ELSE (IF YTruthy(CareersUrlOf(fn_in.heap[Head(companies)]))
          THEN <<<<NameOf(fn_in.heap[Head(companies)]),
                   CareersUrlOf(fn_in.heap[Head(companies)])>>>>
          ELSE <<>>)
         \o WithUrl(Tail(companies))

\* The jobs of the crawls that returned, in the order of the calls.
RECURSIVE JobsOfReturned(_)
JobsOfReturned(crawled) ==
    IF crawled = <<>> THEN <<>>
    ELSE (IF Head(crawled).returned THEN Head(crawled).jobs ELSE <<>>)
         \o JobsOfReturned(Tail(crawled))

\* C21: batch isolation: the batch never raises, and once the crawler is
\* started every target company with a careers URL is crawled, in order,
\* whether earlier crawls raised or returned nothing; the result is the
\* concatenation of the jobs of the crawls that returned.
C21_BatchIsolation ==
    /\ ~fn_out.raised
    /\ pc \in {"select", "enter", "loop", "returned"}
    /\ pc = "returned" =>
         /\ fn_out.all_jobs = JobsOfReturned(fn_out.crawled)
         /\ fn_out.entered =>
              /\ Len(fn_out.crawled) = Len(WithUrl(fn_out.target_companies))
              /\ \A k \in 1..Len(fn_out.crawled) :
                   /\ fn_out.crawled[k].company = WithUrl(fn_out.target_companies)[k][1]
                   /\ fn_out.crawled[k].careers_url = WithUrl(fn_out.target_companies)[k][2]

\* ------------------------------------------------------------------ further properties of the resolver

\* The verifications of the guess stage in the log.
GuessSteps == {i \in 1..Len(log) : log[i].stage = 3}

\* The position of a backend in the order of the guess stage.
BackendRank(a) == CHOOSE i \in 1..Len(GUESS_BACKENDS) : GUESS_BACKENDS[i] = a

\* The variants the guess stage has tried against the backend.
TriedAgainst(a) == {log[i].arg : i \in {j \in GuessSteps : log[j].ats = a}}

ScaleAiVariants == {"scaleai", "scale-ai", "scale_ai", "scale"}

\* C22: the guess stage is backend-major: its verifications go through
\* greenhouse, lever, ashby in this order, a backend is tried only after every
\* variant was tried against the backends before it, the first verification
\* that is ok with count > 0 is the last request and its endpoint is returned;
\* for "Scale AI" the variants tried are scaleai, scale-ai, scale_ai, scale.
\* It is a property of every call of SpecRerun, whose companies hold
\* "Scale AI".
C22_GuessBackendMajor ==
    /\ \A i, j \in GuessSteps :
         i < j => BackendRank(log[i].ats) <= BackendRank(log[j].ats)
    /\ \A i, j \in GuessSteps :
         (i # j /\ log[i].ats = log[j].ats) => log[i].arg # log[j].arg
    /\ (\E j \in GuessSteps : BackendRank(log[j].ats) > 1) =>
         LET variants == slug_variations(name).vars IN
         \A j \in GuessSteps : \A r \in 1..Len(GUESS_BACKENDS) :
            r < BackendRank(log[j].ats) => TriedAgainst(GUESS_BACKENDS[r]) = variants
    /\ \A i \in GuessSteps :
         (log[i].ok /\ log[i].count > 0) =>
            /\ i = Len(log)
            /\ pc = "returned"
            /\ result = ATSInfo(log[i].ats, build_direct_url(log[i].ats, log[i].arg),
                                log[i].count, TRUE)
    /\ name = "Scale AI" =>
         /\ \A i \in GuessSteps : log[i].arg \in ScaleAiVariants
         /\ pc = "exhausted" =>
              \A r \in 1..Len(GUESS_BACKENDS) :
                 TriedAgainst(GUESS_BACKENDS[r]) = ScaleAiVariants

\* C22's case: for "Scale AI" the four variants fail against greenhouse and
\* a variant then verifies with postings against lever.
C22_Witness ==
    /\ name = "Scale AI"
    /\ pc = "returned"
    /\ result.verified
    /\ Last(log).stage = 3
    /\ Last(log).ats = "lever"
    /\ TriedAgainst("greenhouse") = ScaleAiVariants

\* What a step of the embedded-markup stage leads to: after the fetch, the
\* verification of a candidate of a page that answered 200, or the guess
\* stage; after the verification, the return of the verified endpoint or the
\* guess stage.
MarkupStepOutcome ==
    /\ (pc = "stage2") =>
          (\/ pc' = "stage3"
           \/ pc' = "stage2verify" /\ Last(log').ok /\ cand'.v # "")
    /\ (pc = "stage2verify") =>
          (\/ pc' = "stage3" /\ ~Last(log').ok
           \/ pc' = "returned" /\ result'.verified /\ Last(log').ok)

\* C23: a step of the embedded-markup stage that does not return a verified
\* endpoint (the fetch raises or answers a status other than 200, the markup
\* holds no indicator or no slug, the candidate fails verification) moves the
\* call to the guess stage: it neither returns nor raises.
C23_MarkupFailureProceeds ==
    [][MarkupStepOutcome]_vars

\* C23's case: the candidate found in the markup fails verification and the
\* guess stage returns a verified endpoint.
C23_Witness ==
    /\ pc = "returned"
    /\ result.verified
    /\ Last(log).stage = 3
    /\ \E i \in 1..Len(log) : log[i].stage = 2 /\ log[i].op = "verify" /\ ~log[i].ok
    /\ log[1].op = "fetch"

\* ------------------------------------------------------------------ two calls under one network

\* The largest number of boards that exist on the network.
MaxLive == 2

\* Boards that may exist: <<backend, slug, number of postings>>.
BoardPool ==
    {<<"greenhouse", "scale-ai", 1>>, <<"greenhouse", "scale", 2>>,
     <<"greenhouse", "scale", 0>>, <<"greenhouse", "scaleai", 1>>,
     <<"lever", "scale-ai", 2>>}

\* A network: the boards that exist; a request for any other board answers
\* 404, and every career page answers 200 with markup that holds no indicator.
Networks ==
    {S \in SUBSET BoardPool :
        /\ Cardinality(S) <= MaxLive
        /\ \A b, c \in S : (b[1] = c[1] /\ b[2] = c[2]) => b = c}

RerunCompanies ==
    {<<"Scale AI", "https://scale.com/careers", "greenhouse">>,
     <<"Scale", "https://jobs.lever.co/scale-ai", "lever">>}

InitRerun ==
    /\ \E c \in RerunCompanies : name = c[1] /\ career_url = c[2] /\ current_ats = c[3]
    /\ pc = "stage1"
    /\ cand = NoDetection /\ order = <<>> /\ gi = 1 /\ vi = 1
    /\ log = <<>> /\ result = NoResult
    /\ fn_in \in Networks
    /\ fn_out = [run |-> 1, mode |-> "first", first |-> NoResult]

\* The request the step has made was answered by the network of fn_in.
AnsweredByNetwork ==
    /\ pc' # "raised"
    /\ log' # log =>
         LET e == Last(log') IN
         IF e.op = "verify"
         THEN LET live == {b \in fn_in : b[1] = e.ats /\ b[2] = e.arg} IN
              /\ e.ok = (live # {})
              /\ \A b \in live : e.count = b[3]
         ELSE e.ok /\ pc' = "stage3"

StableDirectUrlStage == DirectUrlStage /\ AnsweredByNetwork

StableFetchMarkup == FetchMarkup /\ AnsweredByNetwork

StableGuessVerify == GuessVerify /\ AnsweredByNetwork

\* The same call is made a second time (another process: the variants come in
\* a new order).
RunAgain ==
    /\ pc = "returned"
    /\ fn_out.run = 1
    /\ fn_out' = [run |-> 2, mode |-> "same", first |-> result]
    /\ pc' = "stage1"
    /\ cand' = NoDetection /\ order' = <<>> /\ gi' = 1 /\ vi' = 1
    /\ log' = <<>> /\ result' = NoResult
    /\ UNCHANGED <<name, career_url, current_ats, fn_in>>

\* main: a verified result is written to the company's entry (ats_type and
\* career_url); the fixer then runs again over the corrected entry.
RunOnOutput ==
    /\ pc = "returned"
    /\ fn_out.run = 1
    /\ result.verified
    /\ fn_out' = [run |-> 2, mode |-> "output", first |-> result]
    /\ career_url' = result.direct_url
    /\ current_ats' = result.ats_type
    /\ pc' = "stage1"
    /\ cand' = NoDetection /\ order' = <<>> /\ gi' = 1 /\ vi' = 1
    /\ log' = <<>> /\ result' = NoResult
    /\ UNCHANGED <<name, fn_in>>

NextRerun ==
    \/ StableDirectUrlStage
    \/ StableFetchMarkup
    \/ GenerateVariations
    \/ StableGuessVerify
    \/ ReturnUnverified
    \/ RunAgain
    \/ RunOnOutput

SpecRerun == InitRerun /\ [][NextRerun]_vars

\* C28: under an unchanged network, the call on the endpoint a first call
\* returned as verified returns the same ats_type, direct_url and job_count.
C28_FixpointOnOutput ==
    (pc \in {"returned", "raised"} /\ fn_out.run = 2 /\ fn_out.mode = "output") =>
        /\ pc = "returned"
        /\ result.ats_type = fn_out.first.ats_type
        /\ result.direct_url = fn_out.first.direct_url
        /\ result.job_count = fn_out.first.job_count

\* C29: two calls with the same name, career URL, declared backend and
\* network return the same endpoint.
C29_Deterministic ==
    (pc \in {"returned", "raised"} /\ fn_out.run = 2 /\ fn_out.mode = "same") =>
        /\ pc = "returned"
        /\ result = fn_out.first

\* ------------------------------------------------------------------ the requests of one call

\* Companies for the count of requests: a name with six distinct variants
\* behind a direct URL, a URL that matches only the api.greenhouse.io pattern,
\* and a direct URL with a one-word name.
RequestCompanies ==
    {<<"Open Source AI", "https://jobs.lever.co/opensource", "custom">>,
     <<"", "https://boards-api.greenhouse.io/v1/boards", "greenhouse">>,
     <<"acme", "https://boards.greenhouse.io/acme", "greenhouse">>}

\* The network the guess stage runs against: no board exists.
RequestNetworks == {{}}

InitRequests ==
    /\ \E c \in RequestCompanies : name = c[1] /\ career_url = c[2] /\ current_ats = c[3]
    /\ pc = "stage1"
    /\ cand = NoDetection /\ order = <<>> /\ gi = 1 /\ vi = 1
    /\ log = <<>> /\ result = NoResult
    /\ fn_in \in RequestNetworks
    /\ fn_out = <<>>

NextRequests ==
    \/ DirectUrlStage
    \/ FetchMarkup
    \/ VerifyMarkupCandidate
    \/ GenerateVariations
    \/ StableGuessVerify
    \/ ReturnUnverified

SpecRequests == InitRequests /\ [][NextRequests]_vars

\* The verifications of a stage in the log.
Verifications(stage) == {i \in 1..Len(log) : log[i].op = "verify" /\ log[i].stage = stage}

\* C30: a call makes a bounded number of requests and repeats none: at most
\* one verification in the direct-URL stage, at most one fetch and one
\* verification in the embedded-markup stage, in the guess stage at most one
\* verification for a backend and a variant, with at most 6 distinct variants,
\* at most 20 verifications in all; a career URL whose candidate has no slug
\* is not verified in the direct-URL stage.
C30_BoundedRequests ==
    /\ Cardinality(Verifications(1)) <= 1
    /\ Cardinality({i \in 1..Len(log) : log[i].op = "fetch"}) <= 1
    /\ Cardinality(Verifications(2)) <= 1
    /\ \A i, j \in Verifications(3) :
         (i # j /\ log[i].ats = log[j].ats) => log[i].arg # log[j].arg
    /\ Cardinality({log[i].arg : i \in Verifications(3)}) <= 6
    /\ Cardinality({i \in 1..Len(log) : log[i].op = "verify"}) <= 20
    /\ Len(log) <= 21
    /\ \A i, j \in 1..Len(log) : i < j => log[i].stage <= log[j].stage
    /\ career_url = "https://boards-api.greenhouse.io/v1/boards" => Verifications(1) = {}

\* C30's case: a call that ends unverified after 20 verifications, 18 of them
\* in the guess stage over six distinct variants.
C30_Witness ==
    /\ pc = "returned"
    /\ ~result.verified
    /\ Cardinality({i \in 1..Len(log) : log[i].op = "verify"}) = 20
    /\ Cardinality({log[i].arg : i \in Verifications(3)}) = 6
    /\ Len(log) = 21

====
